---- MODULE Spec2Model ----
(***************************************************************************)
(* Cooling-shelter finder (UDC2025-2): the CSV ingestion pipeline          *)
(* (parseCoolingShelters), the geospatial helpers (geo) and the App        *)
(* component's asynchronous loading and routing.                           *)
(*                                                                         *)
(* Strings are sequences of UTF-16 code units (integers), so that the      *)
(* character-level functions (toHalfWidth, normalizeKey, trim, parseNumber)*)
(* are computed as the code computes them.  The JavaScript value           *)
(* `undefined` of type string|undefined is the sequence Undefined.         *)
(***************************************************************************)
EXTENDS Integers, Sequences, FiniteSets, TLC

VARIABLES
    fn,     \* pure-function harness: the function under evaluation
    arg,    \* pure-function harness: its argument
    ret,    \* pure-function harness: its result
    called, \* pure-function harness: TRUE once the function has been applied
    phase,              \* App: "created", "mounted" or "unmounted"
    override,           \* import.meta.env.VITE_COOLING_SHELTER_URL
    geoSupported,       \* 'geolocation' in navigator
    loadState,          \* useState: 'loading' | 'ready' | 'error'
    loadError,          \* useState: string | null
    dataSource,         \* useState: string | null
    shelters,           \* useState: CoolingShelter[]
    selectedShelterId,  \* useState: string | null
    autoSelectionRef,   \* useRef: autoSelectionRef.current
    geoStatus,          \* useState: GeoStatus
    userLocation,       \* useState: <<>> for null, <<point>> for a GeoPoint
    geoPending,         \* getCurrentPosition calls that have not called back
    routeMode,          \* useState: 'walk' | 'drive'
    route,              \* useState: <<>> for null, <<route>> for a RouteData
    routeError,         \* useState: string | null
    routeLoading,       \* useState: boolean
    cancelled,          \* load effect: its `cancelled` flag
    sources,            \* fetchSheltersFromCandidates: its argument
    fetchPos,           \* fetchSheltersFromCandidates: the source being fetched
    errors,             \* fetchSheltersFromCandidates: its `errors` array
    attempts,           \* history: the fetch(url) calls settled and their responses
    fetchResult,        \* fetchSheltersFromCandidates: how its promise settled
    queries,            \* route effect: the runs that made a request
    controller,         \* route effect: the run whose cleanup is pending, 0 for none
    dirty               \* the effects whose dependencies changed since they ran

pureVars == <<fn, arg, ret, called>>

loadVars == <<loadState, loadError, dataSource, shelters>>
fetchVars == <<cancelled, sources, fetchPos, errors, attempts, fetchResult>>
geoVars == <<geoStatus, userLocation, geoPending>>
selectionVars == <<selectedShelterId, autoSelectionRef>>
routeVars == <<routeMode, route, routeError, routeLoading, queries, controller>>
envVars == <<override, geoSupported>>

appVars ==
    <<phase, envVars, loadVars, fetchVars, geoVars, selectionVars, routeVars, dirty>>

vars == <<pureVars, appVars>>

(***************************************************************************)
(* Strings                                                                 *)
(***************************************************************************)
\* `undefined` where a string is expected (no code unit is negative)
Undefined == <<-1>>

\* sequences over S of length at most n
SeqsUpTo(S, n) == UNION {[1..k -> S] : k \in 0..n}

\* ECMAScript WhiteSpace and LineTerminator: what /\s/ matches and trim() strips
IsWhiteSpace(c) ==
    \/ c \in {9, 10, 11, 12, 13, 32, 160, 5760, 8232, 8233, 8239, 8287, 12288, 65279}
    \/ (8192 <= c /\ c <= 8202)

NotWhiteSpace(c) == ~IsWhiteSpace(c)

SetMin(S) == CHOOSE x \in S : \A y \in S : x <= y
SetMax(S) == -SetMin({-x : x \in S})

\* String.prototype.trim: the string from its first to its last character
\* that is not white space
between(s, solid) ==
    IF solid = {} THEN <<>> ELSE SubSeq(s, SetMin(solid), SetMax(solid))

trim(s) == between(s, {i \in 1..Len(s) : ~IsWhiteSpace(s[i])})

\* String.prototype.includes
includes(s, needle) ==
    \E i \in 0..(Len(s) - Len(needle)) :
        \A j \in 1..Len(needle) : s[i + j] = needle[j]

\* String.prototype.toLowerCase on the code units used here (ASCII letters)
toLowerCase(s) ==
    [i \in 1..Len(s) |-> IF 65 <= s[i] /\ s[i] <= 90 THEN s[i] + 32 ELSE s[i]]

(***************************************************************************)
(* Header Normalizer                                                       *)
(***************************************************************************)
\* value.replace(/[！-～]/g, c => fromCharCode(c - 0xfee0))
toHalfWidth(value) ==
    [i \in 1..Len(value) |->
        IF 65281 <= value[i] /\ value[i] <= 65374
        THEN value[i] - 65248
        ELSE value[i]]

\* .replace(/[()（）]/g, (char) => (char === '（' ? '(' : ')'))
replaceParens(s) ==
    [i \in 1..Len(s) |->
        IF s[i] \in {40, 41, 65288, 65289}
        THEN (IF s[i] = 65288 THEN 40 ELSE 41)
        ELSE s[i]]

NotMiddleDot(c) == c # 12539
NotIdeographicSpace(c) == c # 12288

\* .replace(/：/g, ':')
replaceColon(s) ==
    [i \in 1..Len(s) |-> IF s[i] = 65306 THEN 58 ELSE s[i]]

\* a slip in the middle-dot step: the dot is replaced by a space, not removed
normalizeKeyDotToSpace(key) ==
    LET s1 == SelectSeq(toHalfWidth(key), NotWhiteSpace)
        s2 == replaceParens(s1)
        s3 == [i \in 1..Len(s2) |-> IF s2[i] = 12539 THEN 32 ELSE s2[i]]
        s4 == SelectSeq(s3, NotIdeographicSpace)
    IN  replaceColon(s4)

normalizeKey(key) ==
    LET s1 == SelectSeq(toHalfWidth(key), NotWhiteSpace)   \* .replace(/\s+/g, '')
        s2 == replaceParens(s1)
        s3 == SelectSeq(s2, NotMiddleDot)                  \* .replace(/・/g, '')
        s4 == SelectSeq(s3, NotIdeographicSpace)           \* .replace(/　/g, '')
    IN  replaceColon(s4)

(***************************************************************************)
(* Value Cleaner and numeric coercion                                      *)
(***************************************************************************)
\* a raw cell that is not a string (Papa's __parsed_extra array)
NotAString == <<-2>>

\* '', '―', 'ｰ', '-', 'ー', '―', '－', '無し', 'なし'
NIL_VALUES ==
    {<<>>, <<8213>>, <<65392>>, <<45>>, <<12540>>, <<65293>>,
     <<28961, 12375>>, <<12394, 12375>>}

unlessNil(trimmed) == IF trimmed \in NIL_VALUES THEN Undefined ELSE trimmed

cleanValue(value) ==
    IF value = NotAString \/ value = Undefined
    THEN Undefined
    ELSE unlessNil(trim(value))

(* A JavaScript number, or undefined where number|undefined is expected:   *)
(* kind is "undefined", "NaN", "Infinity" or "finite"; a finite number is  *)
(* its sign, the digits of its integer part without leading zeros and the  *)
(* digits of its fraction without trailing zeros.                          *)
Num(k, n, i, f) == [kind |-> k, neg |-> n, ip |-> i, fp |-> f]
NumUndefined == Num("undefined", FALSE, <<>>, <<>>)
NumNaN == Num("NaN", FALSE, <<>>, <<>>)

IsDigit(c) == 48 <= c /\ c <= 57

\* /[^\d.+-]/ : the characters value.replace(/[^\d.+-]/g, '') keeps
IsNumericChar(c) == IsDigit(c) \/ c \in {43, 45, 46}

from(d, nz) == IF nz = {} THEN <<>> ELSE SubSeq(d, SetMin(nz), Len(d))
upTo(d, nz) == IF nz = {} THEN <<>> ELSE SubSeq(d, 1, SetMax(nz))

stripLeadingZeros(d) == from(d, {i \in 1..Len(d) : d[i] # 0})
stripTrailingZeros(d) == upTo(d, {i \in 1..Len(d) : d[i] # 0})

\* the least integer that, read as a binary64 value, rounds to Infinity:
\* 2^1024 - 2^970 (Number.MAX_VALUE plus half a unit in the last place)
DoubleOverflowDigits ==
    <<1, 7, 9, 7, 6, 9, 3, 1, 3, 4, 8, 6, 2, 3, 1, 5, 8, 0, 7, 9, 3, 7,
    2, 8, 9, 7, 1, 4, 0, 5, 3, 0, 3, 4, 1, 5, 0, 7, 9, 9, 3, 4, 1, 3, 2,
    7, 1, 0, 0, 3, 7, 8, 2, 6, 9, 3, 6, 1, 7, 3, 7, 7, 8, 9, 8, 0, 4, 4,
    4, 9, 6, 8, 2, 9, 2, 7, 6, 4, 7, 5, 0, 9, 4, 6, 6, 4, 9, 0, 1, 7, 9,
    7, 7, 5, 8, 7, 2, 0, 7, 0, 9, 6, 3, 3, 0, 2, 8, 6, 4, 1, 6, 6, 9, 2,
    8, 8, 7, 9, 1, 0, 9, 4, 6, 5, 5, 5, 5, 4, 7, 8, 5, 1, 9, 4, 0, 4, 0,
    2, 6, 3, 0, 6, 5, 7, 4, 8, 8, 6, 7, 1, 5, 0, 5, 8, 2, 0, 6, 8, 1, 9,
    0, 8, 9, 0, 2, 0, 0, 0, 7, 0, 8, 3, 8, 3, 6, 7, 6, 2, 7, 3, 8, 5, 4,
    8, 4, 5, 8, 1, 7, 7, 1, 1, 5, 3, 1, 7, 6, 4, 4, 7, 5, 7, 3, 0, 2, 7,
    0, 0, 6, 9, 8, 5, 5, 5, 7, 1, 3, 6, 6, 9, 5, 9, 6, 2, 2, 8, 4, 2, 9,
    1, 4, 8, 1, 9, 8, 6, 0, 8, 3, 4, 9, 3, 6, 4, 7, 5, 2, 9, 2, 7, 1, 9,
    0, 7, 4, 1, 6, 8, 4, 4, 4, 3, 6, 5, 5, 1, 0, 7, 0, 4, 3, 4, 2, 7, 1,
    1, 5, 5, 9, 6, 9, 9, 5, 0, 8, 0, 9, 3, 0, 4, 2, 8, 8, 0, 1, 7, 7, 9,
    0, 4, 1, 7, 4, 4, 9, 7, 7, 9, 2>>

\* a >= b for two digit sequences without leading zeros
\* (of the same length: decided at the first digit where they differ)
geqAt(a, b, diff) == diff = {} \/ a[SetMin(diff)] > b[SetMin(diff)]

lexGeq(a, b) == geqAt(a, b, {i \in 1..Len(a) : a[i] # b[i]})

digitsGeq(a, b) ==
    \/ Len(a) > Len(b)
    \/ Len(a) = Len(b) /\ lexGeq(a, b)

(* Number(s) for a string s of digits, signs and decimal points            *)
(* (StringNumericLiteral without white space, exponent or radix prefix):   *)
(* an optional sign, then digits with at most one decimal point and at     *)
(* least one digit; anything else is NaN; a magnitude that rounds above    *)
(* Number.MAX_VALUE is Infinity.  The empty string is 0.                   *)
numberOfParts(neg, ip, fpRaw) ==
    IF digitsGeq(ip, DoubleOverflowDigits)
    THEN Num("Infinity", neg, <<>>, <<>>)
    ELSE Num("finite", neg, ip, stripTrailingZeros(fpRaw))

numberAt(neg, body, dots, dot) ==
    IF \/ \E i \in 1..Len(body) : ~(IsDigit(body[i]) \/ body[i] = 46)
       \/ Cardinality(dots) > 1
       \/ ~\E i \in 1..Len(body) : IsDigit(body[i])
    THEN NumNaN
    ELSE numberOfParts(neg,
                       stripLeadingZeros([i \in 1..(dot - 1) |-> body[i] - 48]),
                       [i \in 1..(Len(body) - dot) |-> body[dot + i] - 48])

numberOfBody(neg, body, dots) ==
    numberAt(neg, body, dots, IF dots = {} THEN Len(body) + 1 ELSE SetMin(dots))

numberSigned(neg, body) ==
    numberOfBody(neg, body, {i \in 1..Len(body) : body[i] = 46})

Number(s) ==
    IF s = <<>> THEN Num("finite", FALSE, <<>>, <<>>)
    ELSE numberSigned(s[1] = 45, IF s[1] \in {43, 45} THEN Tail(s) ELSE s)

\* Number.isFinite
isFinite(n) == n.kind = "finite"

\* a slip: the Number.isFinite guard of the return is left out
finiteOrUndefinedUnguarded(parsed) == parsed

\* return Number.isFinite(parsed) ? parsed : undefined
finiteOrUndefined(parsed) == IF isFinite(parsed) THEN parsed ELSE NumUndefined

parseSanitized(sanitized) ==
    IF sanitized = <<>> THEN NumUndefined ELSE finiteOrUndefined(Number(sanitized))

parseNumber(value) ==
    IF value = Undefined \/ value = <<>> THEN NumUndefined
    ELSE parseSanitized(SelectSeq(value, IsNumericChar))

(***************************************************************************)
(* Field Resolver, time coercion and Record Assembler                      *)
(*                                                                         *)
(* A raw row (an element of Papa's parsed.data) is the sequence of its     *)
(* <<key, value>> entries in Object.entries order; a normalized row is the *)
(* same with unique keys.                                                  *)
(***************************************************************************)
\* 'ID', 'ＩＤ', 'Id'
idLabels ==
    << <<73, 68>>,
       <<65321, 65316>>,
       <<73, 100>> >>

\* '地方公共団体名', '市区町村名', '地方自治体名', '自治体名'
municipalityNameLabels ==
    << <<22320, 26041, 20844, 20849, 22243, 20307, 21517>>,
       <<24066, 21306, 30010, 26449, 21517>>,
       <<22320, 26041, 33258, 27835, 20307, 21517>>,
       <<33258, 27835, 20307, 21517>> >>

\* '指定暑熱避難施設の名称', '施設名', '名称', '避難施設名'
nameLabels ==
    << <<25351, 23450, 26257, 29105, 36991, 38627, 26045, 35373, 12398, 21517, 31216>>,
       <<26045, 35373, 21517>>,
       <<21517, 31216>>,
       <<36991, 38627, 26045, 35373, 21517>> >>

\* '所在地', '住所', '所在地住所', '所在地等'
addressLabels ==
    << <<25152, 22312, 22320>>,
       <<20303, 25152>>,
       <<25152, 22312, 22320, 20303, 25152>>,
       <<25152, 22312, 22320, 31561>> >>

\* '緯度', 'Latitude'
latitudeLabels ==
    << <<32239, 24230>>,
       <<76, 97, 116, 105, 116, 117, 100, 101>> >>

\* '経度', 'Longitude'
longitudeLabels ==
    << <<32076, 24230>>,
       <<76, 111, 110, 103, 105, 116, 117, 100, 101>> >>

\* '市区町村コード', '自治体コード', '地方公共団体コード', '全国地方公共団体コード'
municipalityCodeLabels ==
    << <<24066, 21306, 30010, 26449, 12467, 12540, 12489>>,
       <<33258, 27835, 20307, 12467, 12540, 12489>>,
       <<22320, 26041, 20844, 20849, 22243, 20307, 12467, 12540, 12489>>,
       <<20840, 22269, 22320, 26041, 20844, 20849, 22243, 20307, 12467, 12540, 12489>> >>

\* '指定暑熱避難施設を開放することができる日及び時間帯特記事項', '特記事項', '開放特記事項'
specialNotesLabels ==
    << <<25351, 23450, 26257, 29105, 36991, 38627, 26045, 35373, 12434, 38283, 25918, 12377, 12427, 12371, 12392, 12364, 12391, 12365, 12427, 26085, 21450, 12403, 26178, 38291, 24111, 29305, 35352, 20107, 38917>>,
       <<29305, 35352, 20107, 38917>>,
       <<38283, 25918, 29305, 35352, 20107, 38917>> >>

\* '指定暑熱避難施設の開放により受け入れることが可能であると見込まれる人数', '受入可能人数', '収容可能人数'
capacityLabels ==
    << <<25351, 23450, 26257, 29105, 36991, 38627, 26045, 35373, 12398, 38283, 25918, 12395, 12424, 12426, 21463, 12369, 20837, 12428, 12427, 12371, 12392, 12364, 21487, 33021, 12391, 12354, 12427, 12392, 35211, 36796, 12414, 12428, 12427, 20154, 25968>>,
       <<21463, 20837, 21487, 33021, 20154, 25968>>,
       <<21454, 23481, 21487, 33021, 20154, 25968>> >>

\* '施設管理者名', '管理者名', '管理者'
managerLabels ==
    << <<26045, 35373, 31649, 29702, 32773, 21517>>,
       <<31649, 29702, 32773, 21517>>,
       <<31649, 29702, 32773>> >>

\* '連絡先メールアドレス', 'メールアドレス', '連絡先Mail'
emailLabels ==
    << <<36899, 32097, 20808, 12513, 12540, 12523, 12450, 12489, 12524, 12473>>,
       <<12513, 12540, 12523, 12450, 12489, 12524, 12473>>,
       <<36899, 32097, 20808, 77, 97, 105, 108>> >>

\* '電話番号', '連絡先電話番号', 'TEL'
phoneLabels ==
    << <<38651, 35441, 30058, 21495>>,
       <<36899, 32097, 20808, 38651, 35441, 30058, 21495>>,
       <<84, 69, 76>> >>

\* 'URL', 'ＵＲＬ', 'ホームページ'
urlLabels ==
    << <<85, 82, 76>>,
       <<65333, 65330, 65324>>,
       <<12507, 12540, 12512, 12506, 12540, 12472>> >>

\* '指定日', '指定年月日'
designationDateLabels ==
    << <<25351, 23450, 26085>>,
       <<25351, 23450, 24180, 26376, 26085>> >>

\* '公共施設', '施設区分', '施設分類'
facilityOwnershipLabels ==
    << <<20844, 20849, 26045, 35373>>,
       <<26045, 35373, 21306, 20998>>,
       <<26045, 35373, 20998, 39006>> >>

\* '施設の種類', '施設の種類　', '施設種類', '施設分類詳細'
facilityTypeCategoryLabels ==
    << <<26045, 35373, 12398, 31278, 39006>>,
       <<26045, 35373, 12398, 31278, 39006, 12288>>,
       <<26045, 35373, 31278, 39006>>,
       <<26045, 35373, 20998, 39006, 35443, 32048>> >>

\* the weekdays Sunday first: label 日 月 火 水 木 金 土 and, for each, the
\* matchers '?曜', '?曜日' and the English abbreviation in two spellings
DAY_CONFIG ==
    <<
      [key |-> "sun", label |-> <<26085>>,
       matchers |-> << <<26085, 26332>>, <<26085, 26332, 26085>>, <<83, 117, 110>>, <<83, 85, 78>> >>],
      [key |-> "mon", label |-> <<26376>>,
       matchers |-> << <<26376, 26332>>, <<26376, 26332, 26085>>, <<77, 111, 110>>, <<77, 79, 78>> >>],
      [key |-> "tue", label |-> <<28779>>,
       matchers |-> << <<28779, 26332>>, <<28779, 26332, 26085>>, <<84, 117, 101>>, <<84, 85, 69>> >>],
      [key |-> "wed", label |-> <<27700>>,
       matchers |-> << <<27700, 26332>>, <<27700, 26332, 26085>>, <<87, 101, 100>>, <<87, 69, 68>> >>],
      [key |-> "thu", label |-> <<26408>>,
       matchers |-> << <<26408, 26332>>, <<26408, 26332, 26085>>, <<84, 104, 117>>, <<84, 72, 85>> >>],
      [key |-> "fri", label |-> <<37329>>,
       matchers |-> << <<37329, 26332>>, <<37329, 26332, 26085>>, <<70, 114, 105>>, <<70, 82, 73>> >>],
      [key |-> "sat", label |-> <<22303>>,
       matchers |-> << <<22303, 26332>>, <<22303, 26332, 26085>>, <<83, 97, 116>>, <<83, 65, 84>> >>] >>

\* !value for a string|undefined
falsy(value) == value = Undefined \/ value = <<>>

\* Object.fromEntries: a later entry overwrites the value of an earlier entry
\* with the same key, which keeps its place in the key order
setEntry(row, entry, same) ==
    IF same = {} THEN Append(row, entry)
    ELSE [row EXCEPT ![SetMin(same)] = entry]

addEntry(row, entry) ==
    setEntry(row, entry, {i \in 1..Len(row) : row[i][1] = entry[1]})

RECURSIVE fromEntries(_)
fromEntries(entries) ==
    IF entries = <<>> THEN <<>>
    ELSE addEntry(fromEntries(SubSeq(entries, 1, Len(entries) - 1)),
                  entries[Len(entries)])

\* Object.keys(row)
keysOf(row) == [i \in 1..Len(row) |-> row[i][1]]

\* row[key]
valueAt(row, at) == IF at = {} THEN Undefined ELSE row[SetMin(at)][2]

rowGet(row, key) == valueAt(row, {i \in 1..Len(row) : row[i][1] = key})

\* Object.entries(rawRow).map(([k, v]) => [normalizeKey(k), cleanValue(v)])
normalizeRow(rawRow) ==
    fromEntries([i \in 1..Len(rawRow) |->
                    <<normalizeKey(rawRow[i][1]), cleanValue(rawRow[i][2])>>])

\* a slip: the first candidate's value is returned without the test
pickOrUntested(row, candidates, i, found) == found

\* the for loop of pickFirst from candidate i on
\* (found is row[normalized] for candidate i)
RECURSIVE pickFrom(_, _, _)
pickOr(row, candidates, i, found) ==
    IF ~falsy(found) THEN found ELSE pickFrom(row, candidates, i + 1)

pickFrom(row, candidates, i) ==
    IF i > Len(candidates) THEN Undefined
    ELSE pickOr(row, candidates, i, rowGet(row, normalizeKey(candidates[i])))

pickFirst(row, candidates) == pickFrom(row, candidates, 1)

keyHasAll(key, needles) ==
    \A i \in 1..Len(needles) : includes(key, needles[i])

\* the marker test of findByMatchers: '開始' or 'start'; '終了', '閉' or 'end'
hasMarker(key, needle) ==
    IF needle = "start"
    THEN \/ includes(key, <<38283, 22987>>)
         \/ includes(toLowerCase(key), <<115, 116, 97, 114, 116>>)
    ELSE \/ includes(key, <<32066, 20102>>)
         \/ includes(key, <<38281>>)
         \/ includes(toLowerCase(key), <<101, 110, 100>>)

\* a slip: matchers.every for matchers.some
keyMatchesEvery(key, matchers, needle) ==
    \A m \in 1..Len(matchers) :
        keyHasAll(key, <<matchers[m]>>) /\ hasMarker(key, needle)

\* the predicate keys.find is given
keyMatches(key, matchers, needle) ==
    \E m \in 1..Len(matchers) :
        keyHasAll(key, <<matchers[m]>>) /\ hasMarker(key, needle)

firstKey(keys, hits) == IF hits = {} THEN Undefined ELSE keys[SetMin(hits)]

findByMatchers(keys, matchers, needle) ==
    firstKey(keys, {i \in 1..Len(keys) : keyMatches(keys[i], matchers, needle)})

\* normalizeTime without match[1].padStart(2, '0')
normalizeTimeUnpadded(value) ==
    IF falsy(value) THEN Undefined
    ELSE LET digitAt(i) == i >= 1 /\ i <= Len(value) /\ IsDigit(value[i])
             starts == {i \in 1..Len(value) : IsDigit(value[i])}
         IN  IF starts = {} THEN Undefined
             ELSE LET p == SetMin(starts)
                      hourLen == IF digitAt(p + 1) THEN 2 ELSE 1
                      q == p + hourLen
                      r == IF q <= Len(value) /\ value[q] \in {58, 65306}
                           THEN q + 1 ELSE q
                      minute == IF digitAt(r) /\ digitAt(r + 1)
                                THEN SubSeq(value, r, r + 1)
                                ELSE <<48, 48>>
                  IN  SubSeq(value, p, q - 1) \o <<58>> \o minute

\* value.match(/(\d{1,2})(?::|：)?(\d{2})?/): the match starts at the first
\* digit; the hour takes a second digit when there is one, a colon is
\* skipped, and the minute is the next two characters when both are digits
normalizeTime(value) ==
    IF falsy(value) THEN Undefined
    ELSE LET digitAt(i) == i >= 1 /\ i <= Len(value) /\ IsDigit(value[i])
             starts == {i \in 1..Len(value) : IsDigit(value[i])}
         IN  IF starts = {} THEN Undefined
             ELSE LET p == SetMin(starts)
                      hourLen == IF digitAt(p + 1) THEN 2 ELSE 1
                      q == p + hourLen
                      r == IF q <= Len(value) /\ value[q] \in {58, 65306}
                           THEN q + 1 ELSE q
                      hour == IF hourLen = 2 THEN SubSeq(value, p, p + 1)
                              ELSE <<48, value[p]>>
                      minute == IF digitAt(r) /\ digitAt(r + 1)
                                THEN SubSeq(value, r, r + 1)
                                ELSE <<48, 48>>
                  IN  hour \o <<58>> \o minute

\* DAY_CONFIG.map((day) => ...): one Daily Window per weekday, in order
dailyWindow(row, day, startKey, endKey) ==
    [dayLabel |-> day.label,
     open |-> normalizeTime(IF ~falsy(startKey) THEN rowGet(row, startKey)
                            ELSE Undefined),
     close |-> normalizeTime(IF ~falsy(endKey) THEN rowGet(row, endKey)
                             ELSE Undefined)]

\* a slip: only the weekdays that have a column get a window
openingsInColumns(row, keys) ==
    LET found == {d \in 1..Len(DAY_CONFIG) :
                     \/ findByMatchers(keys, DAY_CONFIG[d].matchers, "start") # Undefined
                     \/ findByMatchers(keys, DAY_CONFIG[d].matchers, "end") # Undefined}
        nth(k) == CHOOSE d \in found : Cardinality({e \in found : e < d}) = k - 1
    IN  [k \in 1..Cardinality(found) |->
            dailyWindow(row, DAY_CONFIG[nth(k)],
                        findByMatchers(keys, DAY_CONFIG[nth(k)].matchers, "start"),
                        findByMatchers(keys, DAY_CONFIG[nth(k)].matchers, "end"))]

openingsIn(row, keys) ==
    [d \in 1..Len(DAY_CONFIG) |->
        dailyWindow(row, DAY_CONFIG[d],
                    findByMatchers(keys, DAY_CONFIG[d].matchers, "start"),
                    findByMatchers(keys, DAY_CONFIG[d].matchers, "end"))]

openingsOf(row) == openingsIn(row, keysOf(row))

\* null where number|null is expected
NumNull == Num("null", FALSE, <<>>, <<>>)

\* a ?? b and a || b for strings
orElse(a, b) == IF a = Undefined THEN b ELSE a
orIfFalsy(a, b) == IF falsy(a) THEN b ELSE a

\* a slip: `!latitude` for `latitude === undefined`, which drops a row at 0
rowIsDroppedAtZero(id, name, latitude, longitude) ==
    \/ falsy(id) \/ falsy(name)
    \/ latitude \in {NumUndefined, Num("finite", FALSE, <<>>, <<>>)}
    \/ longitude \in {NumUndefined, Num("finite", FALSE, <<>>, <<>>)}

\* a slip: the coordinates are not looked at
rowIsDroppedByText(id, name, latitude, longitude) ==
    falsy(id) \/ falsy(name)

\* the guard of the `continue` that drops a row
rowIsDropped(id, name, latitude, longitude) ==
    falsy(id) \/ falsy(name) \/ latitude = NumUndefined \/ longitude = NumUndefined

\* capacity ?? null
orNull(capacity) == IF capacity = NumUndefined THEN NumNull ELSE capacity

\* the record pushed for a normalized row
shelterOf(row) ==
        [id |-> pickFirst(row, idLabels),
         municipalityCode |-> pickFirst(row, municipalityCodeLabels),
         municipalityName |->
             orIfFalsy(orElse(pickFirst(row, municipalityNameLabels), <<>>),
                       <<22524, 29577, 30476>>),          \* '埼玉県'
         name |-> orElse(pickFirst(row, nameLabels), <<>>),
         address |-> orElse(pickFirst(row, addressLabels), <<>>),
         latitude |-> parseNumber(pickFirst(row, latitudeLabels)),
         longitude |-> parseNumber(pickFirst(row, longitudeLabels)),
         openings |-> openingsOf(row),
         specialNotes |-> pickFirst(row, specialNotesLabels),
         capacity |-> orNull(parseNumber(pickFirst(row, capacityLabels))),
         manager |-> pickFirst(row, managerLabels),
         email |-> pickFirst(row, emailLabels),
         phone |-> pickFirst(row, phoneLabels),
         url |-> pickFirst(row, urlLabels),
         designationDate |-> pickFirst(row, designationDateLabels),
         facilityTypeCategory |-> pickFirst(row, facilityTypeCategoryLabels),
         facilityOwnership |-> pickFirst(row, facilityOwnershipLabels)]

\* one pass of the loop body: shelters after the raw row has been looked at
pushUnlessDropped(list, shelter) ==
    IF rowIsDropped(shelter.id, shelter.name, shelter.latitude, shelter.longitude)
    THEN list
    ELSE Append(list, shelter)

parseNormalized(list, row) ==
    IF row = <<>> THEN list ELSE pushUnlessDropped(list, shelterOf(row))

parseRow(list, rawRow) == parseNormalized(list, normalizeRow(rawRow))

\* the records of the rows parsed.data holds, Papa having split the text
RECURSIVE parseCoolingShelterCsv(_)
parseCoolingShelterCsv(data) ==
    IF data = <<>> THEN <<>>
    ELSE parseRow(parseCoolingShelterCsv(SubSeq(data, 1, Len(data) - 1)),
                  data[Len(data)])

(***************************************************************************)
(* Geospatial engine                                                       *)
(***************************************************************************)
RECURSIVE digitsValue(_)
digitsValue(d) ==
    IF d = <<>> THEN 0 ELSE 10 * digitsValue(SubSeq(d, 1, Len(d) - 1)) + d[Len(d)]

RECURSIVE natDigits(_)
natDigits(n) ==
    IF n = 0 THEN <<>> ELSE Append(natDigits(n \div 10), n % 10)

\* the number that is the integer n, and the integer that a whole number is
IntToNum(n) == Num("finite", n < 0, natDigits(IF n < 0 THEN -n ELSE n), <<>>)
NumToInt(x) == IF x.neg THEN -digitsValue(x.ip) ELSE digitsValue(x.ip)

\* the whole-degree coordinates the model's Geographic Points are taken from
GeoLatitudes == {35, 36}
GeoLongitudes == {139, 140, 141}

GeoPoints ==
    {[latitude |-> IntToNum(la), longitude |-> IntToNum(lo)] :
        la \in GeoLatitudes, lo \in GeoLongitudes}

\* two points opposite each other on the globe
AntipodalPoints ==
    {[latitude |-> IntToNum(8), longitude |-> IntToNum(0)],
     [latitude |-> IntToNum(-8), longitude |-> IntToNum(180)]}

\* NaN as a number of metres: the whole numbers of the table are not negative
NaNMeters == -1

(* Math.round(EARTH_RADIUS_METERS * c) of the haversine formula, evaluated *)
(* in binary64 arithmetic for every pair of points of the grid, keyed by   *)
(* <<a.latitude, a.longitude, b.latitude, b.longitude>>, with Math.sin and  *)
(* Math.cos rounded to nearest.  Between the antipodes (8, 0) and          *)
(* (-8, 180) the haversine comes to 1 + 2^-52, Math.sqrt(1 - haversine) is *)
(* NaN and so is the result.                                               *)
HaversineMeters ==
    <<35, 139, 35, 139>> :> 0 @@ <<35, 139, 35, 140>> :> 91085 @@
    <<35, 139, 35, 141>> :> 182168 @@ <<35, 139, 36, 139>> :> 111195 @@
    <<35, 139, 36, 140>> :> 143383 @@ <<35, 139, 36, 141>> :> 212463 @@
    <<35, 140, 35, 139>> :> 91085 @@ <<35, 140, 35, 140>> :> 0 @@
    <<35, 140, 35, 141>> :> 91085 @@ <<35, 140, 36, 139>> :> 143383 @@
    <<35, 140, 36, 140>> :> 111195 @@ <<35, 140, 36, 141>> :> 143383 @@
    <<35, 141, 35, 139>> :> 182168 @@ <<35, 141, 35, 140>> :> 91085 @@
    <<35, 141, 35, 141>> :> 0 @@ <<35, 141, 36, 139>> :> 212463 @@
    <<35, 141, 36, 140>> :> 143383 @@ <<35, 141, 36, 141>> :> 111195 @@
    <<36, 139, 35, 139>> :> 111195 @@ <<36, 139, 35, 140>> :> 143383 @@
    <<36, 139, 35, 141>> :> 212463 @@ <<36, 139, 36, 139>> :> 0 @@
    <<36, 139, 36, 140>> :> 89958 @@ <<36, 139, 36, 141>> :> 179914 @@
    <<36, 140, 35, 139>> :> 143383 @@ <<36, 140, 35, 140>> :> 111195 @@
    <<36, 140, 35, 141>> :> 143383 @@ <<36, 140, 36, 139>> :> 89958 @@
    <<36, 140, 36, 140>> :> 0 @@ <<36, 140, 36, 141>> :> 89958 @@
    <<36, 141, 35, 139>> :> 212463 @@ <<36, 141, 35, 140>> :> 143383 @@
    <<36, 141, 35, 141>> :> 111195 @@ <<36, 141, 36, 139>> :> 179914 @@
    <<36, 141, 36, 140>> :> 89958 @@ <<36, 141, 36, 141>> :> 0 @@
    <<35, 139, 8, 0>> :> 13584277 @@ <<35, 139, -8, 180>> :> 6430810 @@
    <<35, 140, 8, 0>> :> 13653717 @@ <<35, 140, -8, 180>> :> 6361370 @@
    <<35, 141, 8, 0>> :> 13722203 @@ <<35, 141, -8, 180>> :> 6292883 @@
    <<36, 139, 8, 0>> :> 13512637 @@ <<36, 139, -8, 180>> :> 6502449 @@
    <<36, 140, 8, 0>> :> 13580731 @@ <<36, 140, -8, 180>> :> 6434356 @@
    <<36, 141, 8, 0>> :> 13647869 @@ <<36, 141, -8, 180>> :> 6367218 @@
    <<8, 0, 35, 139>> :> 13584277 @@ <<8, 0, 35, 140>> :> 13653717 @@
    <<8, 0, 35, 141>> :> 13722203 @@ <<8, 0, 36, 139>> :> 13512637 @@
    <<8, 0, 36, 140>> :> 13580731 @@ <<8, 0, 36, 141>> :> 13647869 @@
    <<8, 0, 8, 0>> :> 0 @@ <<8, 0, -8, 180>> :> NaNMeters @@
    <<-8, 180, 35, 139>> :> 6430810 @@ <<-8, 180, 35, 140>> :> 6361370 @@
    <<-8, 180, 35, 141>> :> 6292883 @@ <<-8, 180, 36, 139>> :> 6502449 @@
    <<-8, 180, 36, 140>> :> 6434356 @@ <<-8, 180, 36, 141>> :> 6367218 @@
    <<-8, 180, 8, 0>> :> NaNMeters @@ <<-8, 180, -8, 180>> :> 0

distanceInMeters(a, b) ==
    HaversineMeters[<<NumToInt(a.latitude), NumToInt(a.longitude),
                      NumToInt(b.latitude), NumToInt(b.longitude)>>]

\* a slip in the comparison: <= lets a later shelter at the same distance win
nearestStepTiesToLast(best, shelter, point) ==
    LET distanceMeters ==
            distanceInMeters(point, [latitude |-> shelter.latitude,
                                     longitude |-> shelter.longitude])
    IN  IF best = <<>> \/ distanceMeters <= best[1].distanceMeters
        THEN <<[shelter |-> shelter, distanceMeters |-> distanceMeters]>>
        ELSE best

\* the loop body of findNearestShelter: best after looking at one shelter
nearestStep(best, shelter, point) ==
    LET distanceMeters ==
            distanceInMeters(point, [latitude |-> shelter.latitude,
                                     longitude |-> shelter.longitude])
    IN  IF best = <<>> \/ distanceMeters < best[1].distanceMeters
        THEN <<[shelter |-> shelter, distanceMeters |-> distanceMeters]>>
        ELSE best

\* best after the first n shelters of the scan
nearestScan(list, point, n) ==
    LET RECURSIVE scan(_)
        scan(k) ==
            IF k = 0 THEN <<>>
            ELSE nearestStep(scan(k - 1), list[k], point)
    IN  scan(n)

\* the result is <<>> for undefined and <<[shelter, distanceMeters]>> otherwise
findNearestShelter(list, point) == nearestScan(list, point, Len(list))

(***************************************************************************)
(* App: the candidate sources and their responses                          *)
(***************************************************************************)
\* `null` where a string is expected
Null == <<-3>>

NotFalsy(value) == ~falsy(value)

\* '/data/cooling-shelters.csv'
PrimarySource == <<47, 100, 97, 116, 97, 47, 99, 111, 111, 108, 105, 110, 103, 45, 115, 104, 101, 108, 116, 101, 114, 115, 46, 99, 115, 118>>

\* '/data/cooling-shelters.sample.csv'
SampleSource == <<47, 100, 97, 116, 97, 47, 99, 111, 111, 108, 105, 110, 103, 45, 115, 104, 101, 108, 116, 101, 114, 115, 46, 115, 97, 109, 112, 108, 101, 46, 99, 115, 118>>

\* the candidate list of the load effect: the deployment's override
\* (import.meta.env.VITE_COOLING_SHELTER_URL) trimmed, then the two bundled
\* paths, without the empty ones
sourcesOf(env) ==
    LET preferredFromEnv == IF env = Undefined THEN <<>> ELSE trim(env)
    IN  SelectSeq(<<preferredFromEnv, PrimarySource, SampleSource>>, NotFalsy)

\* the next source after the i-th that is not blank (`if (!trimmed) continue`),
\* or Len(list) + 1 when the loop is over
nextCandidate(list, i) ==
    SetMin({j \in (i + 1)..Len(list) : trim(list[j]) # <<>>} \cup {Len(list) + 1})

(* What fetch(url) gives: the promise rejects (rejects, with error as the  *)
(* message), or it resolves to a Response of which the code reads ok,      *)
(* status, statusText, the content-type header (Null when there is none)   *)
(* and the body.  The body is unreadable (arrayBuffer() rejects with       *)
(* error), or it is bytes: the encoding they are written in and the rows   *)
(* Papa.parse makes of their text when it is decoded in that encoding.     *)
Response(rejects, ok, status, statusText, contentType, readable, encoding, data, error) ==
    [rejects |-> rejects, ok |-> ok, status |-> status, statusText |-> statusText,
     contentType |-> contentType, readable |-> readable, encoding |-> encoding,
     data |-> data, error |-> error]

\* 'charset='
CharsetEquals == <<99, 104, 97, 114, 115, 101, 116, 61>>

\* match[1] of /charset=([^;]+)/i at the place p of the capture
charsetAt(contentType, p) ==
    SubSeq(contentType, p,
           SetMin({j \in p..Len(contentType) : contentType[j] = 59}
                  \cup {Len(contentType) + 1}) - 1)

parseEncoding(contentType) ==
    IF contentType = Null \/ contentType = <<>> THEN Undefined
    ELSE LET lower == toLowerCase(contentType)
             starts == {i \in 1..(Len(lower) - 8) :
                           /\ SubSeq(lower, i, i + 7) = CharsetEquals
                           /\ lower[i + 8] # 59}
         IN  IF starts = {} THEN Undefined
             ELSE toLowerCase(trim(charsetAt(contentType, SetMin(starts) + 8)))

\* the encoding a TextDecoder label names; "" for a label that names none
\* (the constructor throws a RangeError)
encodingOfLabel(label) ==
    CASE label \in {<<117, 116, 102, 45, 56>>, <<117, 116, 102, 56>>} -> "utf-8"
      [] label \in {<<115, 104, 105, 102, 116, 95, 106, 105, 115>>, <<115, 106, 105, 115>>, <<119, 105, 110, 100, 111, 119, 115, 45, 51, 49, 106>>} -> "shift_jis"
      [] OTHER -> ""

\* new TextDecoder(label, { fatal: true }).decode(buffer): <<rows>>, or <<>>
\* when it throws.  The bodies here hold non-ASCII text, which decodes
\* without error in the encoding it is written in only.
fatalDecode(response, label) ==
    IF encodingOfLabel(label) = response.encoding THEN <<response.data>> ELSE <<>>

\* new TextDecoder().decode(buffer): UTF-8 with U+FFFD for what is no UTF-8
replaced(s) ==
    IF s = NotAString THEN s
    ELSE [i \in 1..Len(s) |-> IF s[i] > 127 THEN 65533 ELSE s[i]]

replacedRow(row) == [i \in 1..Len(row) |-> <<replaced(row[i][1]), replaced(row[i][2])>>]

lossyDecode(response) ==
    IF response.encoding = "utf-8" THEN response.data
    ELSE [i \in 1..Len(response.data) |-> replacedRow(response.data[i])]

\* the first candidate encoding that decodes without error (an encoding
\* tried before decodes the same way again, so skipping it changes nothing)
decodeWith(response, candidates) ==
    LET strict == {i \in 1..Len(candidates) : fatalDecode(response, candidates[i]) # <<>>}
    IN  IF strict = {} THEN lossyDecode(response)
        ELSE fatalDecode(response, candidates[SetMin(strict)])[1]

decodeCsvResponse(response) ==
    decodeWith(response,
               SelectSeq(<<parseEncoding(response.contentType),
                           <<117, 116, 102, 45, 56>>, <<117, 116, 102, 56>>, <<115, 104, 105, 102, 116, 95, 106, 105, 115>>, <<115, 106, 105, 115>>, <<119, 105, 110, 100, 111, 119, 115, 45, 51, 49, 106>>>>,
                         NotFalsy))

\* String(n) of a natural number
decimal(n) ==
    IF n = 0 THEN <<48>> ELSE [i \in 1..Len(natDigits(n)) |-> natDigits(n)[i] + 48]

\* `HTTP ${response.status} ${response.statusText}`
httpMessage(response) ==
    <<72, 84, 84, 80, 32>> \o decimal(response.status) \o <<32>> \o response.statusText

\* 'データが空でした。'
EmptyDataMessage == <<12487, 12540, 12479, 12364, 31354, 12391, 12375, 12383, 12290>>

\* what one pass through the try block comes to: the shelters, or the
\* message of the error thrown
Attempt(ok, list, message) == [ok |-> ok, shelters |-> list, message |-> message]

\* a slip: the empty dataset is not looked for
hasNoSheltersUnchecked(list) == FALSE

hasNoShelters(list) == Len(list) = 0

parsedOrEmpty(list) ==
    IF hasNoShelters(list) THEN Attempt(FALSE, <<>>, EmptyDataMessage)
    ELSE Attempt(TRUE, list, <<>>)

attemptOf(response) ==
    IF response.rejects THEN Attempt(FALSE, <<>>, response.error)
    ELSE IF ~response.ok THEN Attempt(FALSE, <<>>, httpMessage(response))
    ELSE IF ~response.readable THEN Attempt(FALSE, <<>>, response.error)
    ELSE parsedOrEmpty(parseCoolingShelterCsv(decodeCsvResponse(response)))

\* a slip: the list is replaced, so that only the last failure is kept
pushErrorKeepsLast(errorList, source, message) ==
    <<source \o <<58, 32>> \o message>>

\* errors.push(`${source}: ${message}`)
pushError(errorList, source, message) ==
    Append(errorList, source \o <<58, 32>> \o message)

\* errors.join('\n')
RECURSIVE join(_)
join(errorList) ==
    IF errorList = <<>> THEN <<>>
    ELSE IF Len(errorList) = 1 THEN errorList[1]
    ELSE errorList[1] \o <<10>> \o join(Tail(errorList))

(***************************************************************************)
(* Formatting of durations.  The seconds are whole numbers, as those of     *)
(* Math.round(route.duration) are.                                         *)
(***************************************************************************)
\* !seconds: undefined, null, NaN, 0 and -0
notSeconds(seconds) ==
    seconds.kind # "finite" \/ (seconds.ip = <<>> /\ seconds.fp = <<>>)

\* Math.round(n / 60) of a whole number n: a half is rounded up
roundedMinutes(n) == (n + 30) \div 60

\* `${n}` of a whole number (-0 gives '0')
template(n) == IF n < 0 THEN <<45>> \o decimal(-n) ELSE decimal(n)

\* `${minutes}分` and `${hours}時間${restMinutes}分`
minutesText(minutes) ==
    IF minutes < 60
    THEN template(minutes) \o <<20998>>
    ELSE template(minutes \div 60) \o <<26178, 38291>> \o template(minutes % 60) \o <<20998>>

formatDuration(seconds) ==
    IF notSeconds(seconds) \/ seconds.kind = "NaN" THEN <<45>>
    ELSE minutesText(roundedMinutes(NumToInt(seconds)))

(***************************************************************************)
(* App: what the candidates serve                                          *)
(***************************************************************************)
\* the character that tells the served files apart: the last before '.csv'
tagOf(url) == url[Len(url) - 4]

\* a row under the header 'ID', '名称', '緯度', '経度'
servedRow(id, name, latitude, longitude) ==
    << <<<<73, 68>>, id>>, <<<<21517, 31216>>, name>>, <<<<32239, 24230>>, latitude>>, <<<<32076, 24230>>, longitude>> >>

\* the shelters of the file at url: '第一' at 35, 139 and '第二' at 36, 141
firstRow(url) == servedRow(<<tagOf(url), 49>>, <<31532, 19968>>, <<51, 53>>, <<49, 51, 57>>)
secondRow(url) == servedRow(<<tagOf(url), 50>>, <<31532, 20108>>, <<51, 54>>, <<49, 52, 49>>)

\* a row that has no latitude
brokenRow(url) == servedRow(<<tagOf(url), 51>>, <<31532, 19977>>, <<>>, <<49, 51, 57>>)

\* fetch rejects: TypeError('Failed to fetch')
NetworkFailure ==
    Response(TRUE, FALSE, 0, <<>>, Null, FALSE, "", <<>>, <<70, 97, 105, 108, 101, 100, 32, 116, 111, 32, 102, 101, 116, 99, 104>>)

\* 404 Not Found, with a body nobody reads
NotFound(url) ==
    Response(FALSE, FALSE, 404, <<78, 111, 116, 32, 70, 111, 117, 110, 100>>, <<116, 101, 120, 116, 47, 99, 115, 118>>, TRUE, "utf-8",
             <<firstRow(url)>>, <<>>)

\* 200 OK, and the connection drops while the body is read
BodyFailure ==
    Response(FALSE, TRUE, 200, <<79, 75>>, Null, FALSE, "", <<>>, <<110, 101, 116, 119, 111, 114, 107, 32, 101, 114, 114, 111, 114>>)

\* 200 OK, two shelters and a row without latitude, in UTF-8 as declared
Utf8Shelters(url) ==
    Response(FALSE, TRUE, 200, <<79, 75>>, <<116, 101, 120, 116, 47, 99, 115, 118, 59, 32, 67, 104, 97, 114, 115, 101, 116, 61, 85, 84, 70, 45, 56>>, TRUE, "utf-8",
             <<firstRow(url), brokenRow(url), secondRow(url)>>, <<>>)

\* 200 OK, one shelter, in Shift_JIS under a label no TextDecoder knows
SjisShelter(url) ==
    Response(FALSE, TRUE, 200, <<79, 75>>, <<116, 101, 120, 116, 47, 99, 115, 118, 59, 99, 104, 97, 114, 115, 101, 116, 61, 99, 112, 57, 51, 50, 32, 59, 104, 101, 97, 100, 101, 114, 61, 112, 114, 101, 115, 101, 110, 116>>, TRUE,
             "shift_jis", <<firstRow(url)>>, <<>>)

\* 200 OK, no row that has all it needs
Utf8NoShelter(url) ==
    Response(FALSE, TRUE, 200, <<79, 75>>, <<116, 101, 120, 116, 47, 99, 115, 118>>, TRUE, "utf-8", <<brokenRow(url)>>, <<>>)

\* 200 OK, two shelters in EUC-JP, which no candidate encoding decodes
EucShelters(url) ==
    Response(FALSE, TRUE, 200, <<79, 75>>, Null, TRUE, "euc-jp",
             <<firstRow(url), secondRow(url)>>, <<>>)

\* what fetch(url) may give
AllResponses(url) ==
    {NetworkFailure, NotFound(url), BodyFailure, Utf8Shelters(url), SjisShelter(url),
     Utf8NoShelter(url), EucShelters(url)}

\* the responses of a deployment whose files are well-formed when served
CoreResponses(url) == {NetworkFailure, Utf8Shelters(url)}

\* the values of VITE_COOLING_SHELTER_URL: not set, blank, ' /o.csv '
Overrides == {Undefined, <<32, 32>>, <<32, 47, 111, 46, 99, 115, 118, 32>>}

(***************************************************************************)
(* App: state                                                              *)
(***************************************************************************)
Pending == [status |-> "pending", shelters |-> <<>>, sourceUrl |-> <<>>, message |-> <<>>]

\* a slip: the identifier returned is that of the first candidate
returnFirstSource(list, trimmed) ==
    [status |-> "returned", shelters |-> list, sourceUrl |-> trim(sources[1]),
     message |-> <<>>]

\* return { shelters, sourceUrl: trimmed }
returnOf(list, trimmed) ==
    [status |-> "returned", shelters |-> list, sourceUrl |-> trimmed, message |-> <<>>]

\* throw new Error(errors.join('\n'))
throwOf(errorList) ==
    [status |-> "threw", shelters |-> <<>>, sourceUrl |-> <<>>, message |-> join(errorList)]

MaxQueries == 2
MaxPendingLocations == 1

QueryIds == 1..MaxQueries

NoQuery == [state |-> "unused", aborted |-> FALSE, url |-> <<>>]

\* the component as constructed (useState's and useRef's initial values),
\* before its effects have run
Created(env, supported) ==
    /\ phase = "created"
    /\ override = env
    /\ geoSupported = supported
    /\ loadState = "loading"
    /\ loadError = Null
    /\ dataSource = Null
    /\ shelters = <<>>
    /\ selectedShelterId = Null
    /\ autoSelectionRef = TRUE
    /\ geoStatus = "idle"
    /\ userLocation = <<>>
    /\ geoPending = 0
    /\ routeMode = "walk"
    /\ route = <<>>
    /\ routeError = Null
    /\ routeLoading = FALSE
    /\ cancelled = FALSE
    /\ sources = <<>>
    /\ fetchPos = 0
    /\ errors = <<>>
    /\ attempts = <<>>
    /\ fetchResult = Pending
    /\ queries = [q \in QueryIds |-> NoQuery]
    /\ controller = 0
    /\ dirty = {}

Idle ==
    /\ fn = "none"
    /\ arg = <<>>
    /\ ret = <<>>
    /\ called = FALSE

Init ==
    /\ Idle
    /\ \E env \in Overrides : \E supported \in BOOLEAN : Created(env, supported)

(***************************************************************************)
(* App: memoized values and effects                                        *)
(*                                                                         *)
(* React runs the effects of a render some time after it (other callbacks  *)
(* may come first), and always before it renders again.  `dirty` holds the *)
(* effects of the last render that have not run yet; an update of a        *)
(* dependency of an effect runs them before it is rendered.                *)
(***************************************************************************)
\* the state the effects read and write
current ==
    [shelters |-> shelters, userLocation |-> userLocation, routeMode |-> routeMode,
     selectedShelterId |-> selectedShelterId, autoSelectionRef |-> autoSelectionRef,
     route |-> route, routeError |-> routeError, routeLoading |-> routeLoading,
     queries |-> queries, controller |-> controller, dirty |-> dirty]

render(s) ==
    /\ shelters' = s.shelters
    /\ userLocation' = s.userLocation
    /\ routeMode' = s.routeMode
    /\ selectedShelterId' = s.selectedShelterId
    /\ autoSelectionRef' = s.autoSelectionRef
    /\ route' = s.route
    /\ routeError' = s.routeError
    /\ routeLoading' = s.routeLoading
    /\ queries' = s.queries
    /\ controller' = s.controller
    /\ dirty' = s.dirty

\* shelters.find((item) => item.id === selectedShelterId) ?? null, as the
\* place of the shelter found (0 for null)
selectedIndex(list, id) ==
    SetMin({i \in 1..Len(list) : list[i].id = id} \cup {Len(list) + 1}) % (Len(list) + 1)

selectedShelter(list, id) ==
    IF selectedIndex(list, id) = 0 THEN <<>> ELSE <<list[selectedIndex(list, id)]>>

\* the nearestShelter memo: <<>> for undefined
nearestShelter(list, location) ==
    IF location = <<>> \/ Len(list) = 0 THEN <<>>
    ELSE findNearestShelter(list, location[1])

\* whether the nearestShelter memo of these shelters is an object
nearestDefined(list, hasLocation) == hasLocation /\ Len(list) > 0

\* the effects to run after the render in which shelters becomes list2,
\* selectedShelterId id2 and routeMode mode2, and userLocation a new object
\* if located: those of which a dependency is another value than in s
rerun(s, list2, id2, mode2, located) ==
    (IF list2 # s.shelters \/ located \/ id2 # s.selectedShelterId
     THEN {"select"} ELSE {})
    \cup
    (IF \/ id2 # s.selectedShelterId
        \/ /\ (list2 # s.shelters \/ located)
           /\ \/ nearestDefined(s.shelters, s.userLocation # <<>>)
              \/ nearestDefined(list2, located \/ s.userLocation # <<>>)
     THEN {"fallback"} ELSE {})
    \cup
    (IF \/ mode2 # s.routeMode
        \/ selectedIndex(list2, id2) # selectedIndex(s.shelters, s.selectedShelterId)
        \/ located
     THEN {"route"} ELSE {})

\* a slip: autoSelectionRef.current is not looked at
autoSelectedAlways(s) ==
    IF "select" \notin s.dirty \/ Len(s.shelters) = 0 THEN <<>>
    ELSE IF s.userLocation # <<>>
    THEN <<findNearestShelter(s.shelters, s.userLocation[1])[1].shelter.id>>
    ELSE IF s.selectedShelterId = Null \/ s.selectedShelterId = <<>>
    THEN <<s.shelters[1].id>>
    ELSE <<>>

\* the auto-selection effect: <<id>> if it calls setSelectedShelterId(id)
autoSelected(s) ==
    IF "select" \notin s.dirty \/ Len(s.shelters) = 0 THEN <<>>
    ELSE IF s.userLocation # <<>> /\ s.autoSelectionRef
    THEN <<findNearestShelter(s.shelters, s.userLocation[1])[1].shelter.id>>
    ELSE IF s.selectedShelterId = Null \/ s.selectedShelterId = <<>>
    THEN <<s.shelters[1].id>>
    ELSE <<>>

\* the nearest-fallback effect: <<id>> if it calls setSelectedShelterId(id)
fallbackSelected(s) ==
    IF /\ "fallback" \in s.dirty
       /\ (s.selectedShelterId = Null \/ s.selectedShelterId = <<>>)
       /\ nearestShelter(s.shelters, s.userLocation) # <<>>
    THEN <<nearestShelter(s.shelters, s.userLocation)[1].shelter.id>>
    ELSE <<>>

\* selectedShelterId after the setSelectedShelterId calls of the two effects
selectedAfter(s, first, second) ==
    IF second # <<>> THEN second[1] ELSE IF first # <<>> THEN first[1]
    ELSE s.selectedShelterId

\* controller.abort() of the run whose cleanup is pending
abortPrevious(s) ==
    [q \in QueryIds |->
        IF q = s.controller THEN [s.queries[q] EXCEPT !.aborted = TRUE] ELSE s.queries[q]]

\* whether the route effect returns before it makes a request
routeSkipped(s) ==
    s.userLocation = <<>> \/ selectedShelter(s.shelters, s.selectedShelterId) = <<>>

nextQuery(s) ==
    SetMin({q \in QueryIds : s.queries[q].state = "unused"} \cup {MaxQueries + 1})

\* the request of the route effect: the OSRM profile and the two ends
routeUrl(mode, origin, destination) ==
    [profile |-> IF mode = "walk" THEN "foot" ELSE "driving",
     origin |-> [latitude |-> origin.latitude, longitude |-> origin.longitude],
     destination |-> [latitude |-> destination.latitude,
                      longitude |-> destination.longitude]]

\* the route effect: the cleanup of its last run, then its run
routeEffect(s) ==
    IF "route" \notin s.dirty THEN s
    ELSE IF routeSkipped(s)
    THEN [s EXCEPT !.queries = abortPrevious(s), !.controller = 0,
                   !.route = <<>>, !.routeError = Null, !.routeLoading = FALSE]
    ELSE [s EXCEPT !.queries =
                       [abortPrevious(s) EXCEPT ![nextQuery(s)] =
                           [state |-> "inflight", aborted |-> FALSE,
                            url |-> routeUrl(s.routeMode, s.userLocation[1],
                                             selectedShelter(s.shelters,
                                                             s.selectedShelterId)[1])]],
                   !.controller = nextQuery(s),
                   !.routeLoading = TRUE, !.routeError = Null]

\* s after the effects in s.dirty have run and their updates are rendered
effectsRun(s) ==
    [routeEffect(s) EXCEPT
        !.selectedShelterId = selectedAfter(s, autoSelected(s), fallbackSelected(s)),
        !.autoSelectionRef = IF autoSelected(s) # <<>> THEN TRUE ELSE s.autoSelectionRef,
        !.dirty = rerun(s, s.shelters,
                        selectedAfter(s, autoSelected(s), fallbackSelected(s)),
                        s.routeMode, FALSE)]

\* the model has a query left for the route effect to make
canFlush(s) ==
    "route" \in s.dirty /\ ~routeSkipped(s) => nextQuery(s) <= MaxQueries

flushed(s) == IF s.dirty = {} THEN s ELSE effectsRun(s)

FlushEffects ==
    /\ phase = "mounted"
    /\ dirty # {}
    /\ canFlush(current)
    /\ render(effectsRun(current))
    /\ UNCHANGED <<pureVars, phase, envVars, loadState, loadError, dataSource,
                   fetchVars, geoStatus, geoPending>>

(***************************************************************************)
(* App: location                                                           *)
(***************************************************************************)
MayRequestLocation == geoSupported => geoPending < MaxPendingLocations

requestLocation ==
    IF geoSupported
    THEN geoStatus' = "pending" /\ geoPending' = geoPending + 1
    ELSE geoStatus' = "unsupported" /\ UNCHANGED geoPending

\* the button '現在地を再取得'
ClickRequestLocation ==
    /\ phase = "mounted"
    /\ MayRequestLocation
    /\ requestLocation
    /\ UNCHANGED <<pureVars, phase, envVars, loadVars, fetchVars, userLocation,
                   selectionVars, routeVars, dirty>>

\* the points getCurrentPosition reports
UserPoints ==
    {[latitude |-> IntToNum(35), longitude |-> IntToNum(140)],
     [latitude |-> IntToNum(36), longitude |-> IntToNum(140)]}

located(s, point) ==
    [s EXCEPT !.userLocation = <<point>>,
              !.dirty = s.dirty \cup rerun(s, s.shelters, s.selectedShelterId, s.routeMode, TRUE)]

\* the success callback of getCurrentPosition
positionFound(point) ==
    /\ phase = "mounted"
    /\ geoPending > 0
    /\ canFlush(current)
    /\ geoPending' = geoPending - 1
    /\ geoStatus' = "granted"
    /\ render(located(flushed(current), point))
    /\ UNCHANGED <<pureVars, phase, envVars, loadState, loadError, dataSource, fetchVars>>

\* the error callback of getCurrentPosition
positionFailed(denied) ==
    /\ phase = "mounted"
    /\ geoPending > 0
    /\ geoPending' = geoPending - 1
    /\ geoStatus' = IF denied THEN "denied" ELSE "error"
    /\ UNCHANGED <<pureVars, phase, envVars, loadVars, fetchVars, userLocation,
                   selectionVars, routeVars, dirty>>

(***************************************************************************)
(* App: mounting and the load effect                                       *)
(***************************************************************************)
\* the first run of the effects: requestLocation(); the load effect up to
\* its first fetch; the selection effects, which find no shelters; the route
\* effect, which finds no location
Mount ==
    /\ phase = "created"
    /\ phase' = "mounted"
    /\ requestLocation
    /\ loadState' = "loading"
    /\ loadError' = Null
    /\ sources' = sourcesOf(override)
    /\ fetchPos' = nextCandidate(sourcesOf(override), 0)
    /\ route' = <<>>
    /\ routeError' = Null
    /\ routeLoading' = FALSE
    /\ UNCHANGED <<pureVars, envVars, dataSource, shelters, cancelled, errors, attempts,
                   fetchResult, userLocation, selectionVars, routeMode, queries,
                   controller, dirty>>

loaded(s, data) ==
    [s EXCEPT !.shelters = data,
              !.dirty = s.dirty \cup rerun(s, data, s.selectedShelterId, s.routeMode, FALSE)]

\* the load effect after `await fetchSheltersFromCandidates(sources)`
runLoad(result) ==
    IF result.status = "pending" \/ cancelled
    THEN /\ render(current)
         /\ UNCHANGED <<loadState, loadError, dataSource>>
    ELSE IF result.status = "returned"
    THEN /\ render(loaded(flushed(current), result.shelters))
         /\ dataSource' = result.sourceUrl
         /\ loadState' = "ready"
         /\ UNCHANGED loadError
    ELSE /\ render(current)
         /\ loadState' = "error"
         /\ loadError' = result.message
         /\ UNCHANGED dataSource

\* how the promise of fetchSheltersFromCandidates stands after an attempt
resultOf(source, outcome, errorList, next) ==
    IF outcome.ok THEN returnOf(outcome.shelters, trim(source))
    ELSE IF next > Len(sources) THEN throwOf(errorList)
    ELSE Pending

\* one pass of the loop of fetchSheltersFromCandidates, from the response
\* to the next `await fetch`, or to the end and on into the load effect
settleAttempt(source, response, outcome, next) ==
    /\ attempts' = Append(attempts, [url |-> trim(source), response |-> response])
    /\ errors' = IF outcome.ok THEN errors
                 ELSE pushError(errors, source, outcome.message)
    /\ fetchPos' = IF outcome.ok THEN fetchPos ELSE next
    /\ fetchResult' = resultOf(source, outcome, errors', next)
    /\ runLoad(fetchResult')

fetchCandidate(response) ==
    /\ phase # "created"
    /\ fetchResult.status = "pending"
    /\ canFlush(current)
    /\ settleAttempt(sources[fetchPos], response, attemptOf(response),
                     nextCandidate(sources, fetchPos))
    /\ UNCHANGED <<pureVars, phase, envVars, cancelled, sources, geoStatus, geoPending>>

Fetching == fetchPos \in 1..Len(sources)

\* the candidate being fetched gives any response
FetchResponds ==
    /\ Fetching
    /\ \E response \in AllResponses(trim(sources[fetchPos])) : fetchCandidate(response)

\* the candidate being fetched is down or serves its file
FetchServes ==
    /\ Fetching
    /\ \E response \in CoreResponses(trim(sources[fetchPos])) : fetchCandidate(response)

\* the cleanups of the effects
Unmount ==
    /\ phase = "mounted"
    /\ phase' = "unmounted"
    /\ cancelled' = TRUE
    /\ queries' = abortPrevious(current)
    /\ controller' = 0
    /\ dirty' = {}
    /\ UNCHANGED <<pureVars, envVars, loadVars, sources, fetchPos, errors, attempts,
                   fetchResult, geoVars, selectionVars, routeMode, route, routeError,
                   routeLoading>>

(***************************************************************************)
(* App: selection, travel mode and routing                                 *)
(***************************************************************************)
selected(s, shelterId) ==
    [s EXCEPT !.autoSelectionRef = FALSE,
              !.selectedShelterId = shelterId,
              !.dirty = s.dirty \cup rerun(s, s.shelters, shelterId, s.routeMode, FALSE)]

\* a click on a shelter of the list or of the map
handleSelectShelter(shelterId) ==
    /\ phase = "mounted"
    /\ canFlush(current)
    /\ render(selected(flushed(current), shelterId))
    /\ UNCHANGED <<pureVars, phase, envVars, loadState, loadError, dataSource,
                   fetchVars, geoStatus, geoPending>>

SelectShelter ==
    \E i \in 1..Len(shelters) : handleSelectShelter(shelters[i].id)

moded(s, mode) ==
    [s EXCEPT !.routeMode = mode,
              !.dirty = s.dirty \cup rerun(s, s.shelters, s.selectedShelterId, mode, FALSE)]

\* the buttons '徒歩' and '車'
setRouteMode(mode) ==
    /\ phase = "mounted"
    /\ canFlush(current)
    /\ render(moded(flushed(current), mode))
    /\ UNCHANGED <<pureVars, phase, envVars, loadState, loadError, dataSource,
                   fetchVars, geoStatus, geoPending>>

(* What fetch(url, { signal }) of the route effect gives: the promise      *)
(* rejects, or it resolves to a Response whose JSON has routes and may     *)
(* have a message.                                                         *)
RouteReply(rejects, ok, status, statusText, routes, message, error) ==
    [rejects |-> rejects, ok |-> ok, status |-> status, statusText |-> statusText,
     routes |-> routes, message |-> message, error |-> error]

\* a route along the straight line, at 1 m/s on foot and 10 m/s driving
straightRoute(url) ==
    [geometry |-> << <<url.origin.longitude, url.origin.latitude>>,
                     <<url.destination.longitude, url.destination.latitude>> >>,
     distance |-> distanceInMeters(url.origin, url.destination),
     duration |-> distanceInMeters(url.origin, url.destination)
                      \div (IF url.profile = "foot" THEN 1 ELSE 10)]

RouteReplies(url) ==
    {RouteReply(TRUE, FALSE, 0, <<>>, <<>>, Undefined, <<70, 97, 105, 108, 101, 100, 32, 116, 111, 32, 102, 101, 116, 99, 104>>),
     RouteReply(FALSE, TRUE, 200, <<79, 75>>, <<>>, Undefined, <<>>),
     RouteReply(FALSE, TRUE, 200, <<79, 75>>, <<straightRoute(url)>>, Undefined, <<>>)}

\* the RouteData of routes[0]: [lon, lat] becomes [lat, lon]
routeDataOf(firstRoute) ==
    [coordinates |->
         [i \in 1..Len(firstRoute.geometry) |->
             <<firstRoute.geometry[i][2], firstRoute.geometry[i][1]>>],
     distance |-> firstRoute.distance,
     duration |-> firstRoute.duration]

RouteState(data, message, loading) ==
    [route |-> data, routeError |-> message, routeLoading |-> loading]

\* '経路が見つかりませんでした。'
NoRouteMessage == <<32076, 36335, 12364, 35211, 12388, 12363, 12426, 12414, 12379, 12435, 12391, 12375, 12383, 12290>>

\* the message of the error the try block of the route effect throws, or
\* Undefined when it throws none
routeFailure(reply) ==
    IF reply.rejects THEN reply.error
    ELSE IF ~reply.ok THEN httpMessage(reply)
    ELSE IF reply.routes = <<>>
    THEN (IF reply.message = Undefined THEN NoRouteMessage ELSE reply.message)
    ELSE Undefined

\* a slip: the signal is not looked at
routeSettledUnguarded(aborted, reply, before) ==
    IF routeFailure(reply) = Undefined
    THEN RouteState(<<routeDataOf(reply.routes[1])>>, Null, FALSE)
    ELSE RouteState(<<>>, routeFailure(reply), FALSE)

\* a slip: the catch block does not clear the route
routeSettledKeepsRoute(aborted, reply, before) ==
    IF aborted THEN before
    ELSE IF routeFailure(reply) = Undefined
    THEN RouteState(<<routeDataOf(reply.routes[1])>>, Null, FALSE)
    ELSE RouteState(before.route, routeFailure(reply), FALSE)

\* route, routeError and routeLoading after run() of the route effect has
\* gone on from its `await fetch`
routeSettled(aborted, reply, before) ==
    IF aborted THEN before
    ELSE IF routeFailure(reply) = Undefined
    THEN RouteState(<<routeDataOf(reply.routes[1])>>, Null, FALSE)
    ELSE RouteState(<<>>, routeFailure(reply), FALSE)

routeResponds(q, reply) ==
    /\ queries[q].state = "inflight"
    /\ queries' = [queries EXCEPT
                      ![q] = [state |-> IF queries[q].aborted THEN "ignored"
                                        ELSE "committed",
                              aborted |-> queries[q].aborted, url |-> <<>>]]
    /\ route' = routeSettled(queries[q].aborted, reply,
                             RouteState(route, routeError, routeLoading)).route
    /\ routeError' = routeSettled(queries[q].aborted, reply,
                                  RouteState(route, routeError, routeLoading)).routeError
    /\ routeLoading' = routeSettled(queries[q].aborted, reply,
                                    RouteState(route, routeError, routeLoading)).routeLoading
    /\ UNCHANGED <<pureVars, phase, envVars, loadVars, fetchVars, geoVars,
                   selectionVars, routeMode, controller, dirty>>

RouteResponds ==
    \E q \in QueryIds :
        /\ queries[q].state = "inflight"
        /\ \E reply \in RouteReplies(queries[q].url) : routeResponds(q, reply)

(***************************************************************************)
(* App: specifications                                                     *)
(***************************************************************************)
\* the load effect alone, the candidates giving any response
NextLoad ==
    \/ Mount
    \/ FetchResponds
    \/ Unmount

SpecLoad == Init /\ [][NextLoad]_vars

Next ==
    \/ Mount
    \/ FetchServes
    \/ FlushEffects
    \/ ClickRequestLocation
    \/ \E point \in UserPoints : positionFound(point)
    \/ \E denied \in BOOLEAN : positionFailed(denied)
    \/ SelectShelter
    \/ \E mode \in {"walk", "drive"} : setRouteMode(mode)
    \/ RouteResponds
    \/ Unmount

Spec == Init /\ [][Next]_vars

(***************************************************************************)
(* App: properties of the load effect                                      *)
(***************************************************************************)
\* the candidates in the order of the README: the override if there is one,
\* '/data/cooling-shelters.csv', '/data/cooling-shelters.sample.csv'
ExpectedSources ==
    IF override = <<32, 47, 111, 46, 99, 115, 118, 32>>
    THEN <<<<47, 111, 46, 99, 115, 118>>, <<47, 100, 97, 116, 97, 47, 99, 111, 111, 108, 105, 110, 103, 45, 115, 104, 101, 108, 116, 101, 114, 115, 46, 99, 115, 118>>, <<47, 100, 97, 116, 97, 47, 99, 111, 111, 108, 105, 110, 103, 45, 115, 104, 101, 108, 116, 101, 114, 115, 46, 115, 97, 109, 112, 108, 101, 46, 99, 115, 118>>>>
    ELSE <<<<47, 100, 97, 116, 97, 47, 99, 111, 111, 108, 105, 110, 103, 45, 115, 104, 101, 108, 116, 101, 114, 115, 46, 99, 115, 118>>, <<47, 100, 97, 116, 97, 47, 99, 111, 111, 108, 105, 110, 103, 45, 115, 104, 101, 108, 116, 101, 114, 115, 46, 115, 97, 109, 112, 108, 101, 46, 99, 115, 118>>>>

\* the identifiers of the shelters in what url serves with this response:
\* 'o', 's' or 'e' for the file, then '1', '2'
ExpectedIds(url, response) ==
    LET tag == IF url = <<47, 111, 46, 99, 115, 118>> THEN 111
               ELSE IF url = <<47, 100, 97, 116, 97, 47, 99, 111, 111, 108, 105, 110, 103, 45, 115, 104, 101, 108, 116, 101, 114, 115, 46, 99, 115, 118>> THEN 115 ELSE 101
    IN  IF response = Utf8Shelters(url) THEN << <<tag, 49>>, <<tag, 50>> >>
        ELSE IF response = SjisShelter(url) THEN << <<tag, 49>> >>
        ELSE <<>>

\* the candidate is one the fetcher gives up
FailsAt(url, response) == ExpectedIds(url, response) = <<>>

\* the attempts were made on the candidates in list order
AttemptsInListOrder ==
    /\ Len(attempts) <= Len(ExpectedSources)
    /\ \A i \in 1..Len(attempts) : attempts[i].url = ExpectedSources[i]

\* C1: the candidates are tried in list order (override, primary dataset,
\* bundled sample); when fetchSheltersFromCandidates returns, every earlier
\* candidate has failed, the last one tried has succeeded, and the records
\* and sourceUrl returned are those of that last candidate alone: no record
\* of another candidate is among them.  The load effect shows them as they
\* are.
C1_ResultOnlyFromSucceedingCandidate ==
    /\ phase = "created" \/ sources = ExpectedSources
    /\ AttemptsInListOrder
    /\ fetchResult.status = "returned" =>
           LET n == Len(attempts)
           IN  /\ n >= 1
               /\ \A i \in 1..(n - 1) : FailsAt(attempts[i].url, attempts[i].response)
               /\ fetchResult.sourceUrl = attempts[n].url
               /\ [k \in 1..Len(fetchResult.shelters) |-> fetchResult.shelters[k].id]
                      = ExpectedIds(attempts[n].url, attempts[n].response)
               /\ fetchResult.shelters # <<>>
               /\ ~cancelled =>
                      /\ shelters = fetchResult.shelters
                      /\ dataSource = fetchResult.sourceUrl

\* the override answered 404 with a body that holds a shelter, the primary
\* dataset held no usable row, and the sample was returned
C1_Witness ==
    /\ fetchResult.status = "returned"
    /\ Len(attempts) = 3
    /\ attempts[1].response = NotFound(<<47, 111, 46, 99, 115, 118>>)
    /\ attempts[2].response = Utf8NoShelter(<<47, 100, 97, 116, 97, 47, 99, 111, 111, 108, 105, 110, 103, 45, 115, 104, 101, 108, 116, 101, 114, 115, 46, 99, 115, 118>>)
    /\ fetchResult.sourceUrl = <<47, 100, 97, 116, 97, 47, 99, 111, 111, 108, 105, 110, 103, 45, 115, 104, 101, 108, 116, 101, 114, 115, 46, 115, 97, 109, 112, 108, 101, 46, 99, 115, 118>>
    /\ Len(fetchResult.shelters) = 2
    /\ dataSource = <<47, 100, 97, 116, 97, 47, 99, 111, 111, 108, 105, 110, 103, 45, 115, 104, 101, 108, 116, 101, 114, 115, 46, 115, 97, 109, 112, 108, 101, 46, 99, 115, 118>>

\* the failure reason of a failing response, as the error message gives it
ExpectedReason(url, response) ==
    IF response = NetworkFailure THEN <<70, 97, 105, 108, 101, 100, 32, 116, 111, 32, 102, 101, 116, 99, 104>>
    ELSE IF response = NotFound(url) THEN <<72, 84, 84, 80, 32, 52, 48, 52, 32, 78, 111, 116, 32, 70, 111, 117, 110, 100>>
    ELSE IF response = BodyFailure THEN <<110, 101, 116, 119, 111, 114, 107, 32, 101, 114, 114, 111, 114>>
    ELSE <<12487, 12540, 12479, 12364, 31354, 12391, 12375, 12383, 12290>>

\* the lines of a text
linesOf(text) ==
    LET breaks == {i \in 1..Len(text) : text[i] = 10}
        starts == {1} \cup {i + 1 : i \in breaks}
        lineAt(b) == SubSeq(text, b, SetMin({i \in breaks : i >= b} \cup {Len(text) + 1}) - 1)
        nth(k) == CHOOSE b \in starts : Cardinality({c \in starts : c < b}) = k - 1
    IN  [k \in 1..Cardinality(starts) |-> lineAt(nth(k))]

\* C2: fetchSheltersFromCandidates throws only when every candidate has been
\* attempted and has failed, and the message of its error has one line for
\* every candidate, in attempt order: the source, ': ' and the reason of its
\* failure.  The load effect then shows the error and no shelters.
C2_FailsOnlyAfterEveryCandidateFailed ==
    fetchResult.status = "threw" =>
        /\ Len(attempts) = Len(ExpectedSources)
        /\ \A i \in 1..Len(attempts) :
               /\ attempts[i].url = ExpectedSources[i]
               /\ FailsAt(attempts[i].url, attempts[i].response)
        /\ linesOf(fetchResult.message)
               = [i \in 1..Len(attempts) |->
                     ExpectedSources[i] \o <<58, 32>>
                         \o ExpectedReason(attempts[i].url, attempts[i].response)]
        /\ ~cancelled =>
               /\ loadState = "error"
               /\ loadError = fetchResult.message
               /\ shelters = <<>>

\* three candidates have failed in three ways, and the error names the three
C2_Witness ==
    /\ fetchResult.status = "threw"
    /\ Len(attempts) = 3
    /\ attempts[1].response = NetworkFailure
    /\ attempts[2].response = NotFound(<<47, 100, 97, 116, 97, 47, 99, 111, 111, 108, 105, 110, 103, 45, 115, 104, 101, 108, 116, 101, 114, 115, 46, 99, 115, 118>>)
    /\ attempts[3].response = EucShelters(<<47, 100, 97, 116, 97, 47, 99, 111, 111, 108, 105, 110, 103, 45, 115, 104, 101, 108, 116, 101, 114, 115, 46, 115, 97, 109, 112, 108, 101, 46, 99, 115, 118>>)
    /\ loadState = "error"
    /\ Len(linesOf(loadError)) = 3

\* C3: a candidate is given up only on a non-success status or a transport
\* failure (of the request, or of the reading of the body), so that no
\* later candidate is attempted after a candidate has answered with
\* response.ok and a body that could be read.
C3_AbandonedOnlyOnTransportFailure ==
    \A i \in 1..Len(attempts) :
        (i < Len(attempts) \/ fetchResult.status = "threw") =>
            \/ attempts[i].response.rejects
            \/ ~attempts[i].response.ok
            \/ ~attempts[i].response.readable

\* C20: the application is not in load state 'ready' with an empty
\* collection: when loadState is 'ready' there are shelters, and dataSource
\* is the candidate whose content gave them; a candidate whose content gives
\* no usable record is not the data source.
C20_ReadyHasRecordsOfDataSource ==
    /\ loadState = "ready" =>
           /\ shelters # <<>>
           /\ \E i \in 1..Len(attempts) :
                  /\ dataSource = attempts[i].url
                  /\ [k \in 1..Len(shelters) |-> shelters[k].id]
                         = ExpectedIds(attempts[i].url, attempts[i].response)
    /\ \A i \in 1..Len(attempts) :
           ExpectedIds(attempts[i].url, attempts[i].response) = <<>>
               => dataSource # attempts[i].url

\* the primary dataset has answered with a CSV without a usable row and the
\* bundled sample with two shelters: the application is ready with those two
\* and the sample as its data source
C20_Witness ==
    /\ loadState = "ready"
    /\ Len(attempts) = 2
    /\ attempts[1].response = Utf8NoShelter(PrimarySource)
    /\ dataSource = SampleSource
    /\ Len(shelters) = 2

(***************************************************************************)
(* App: properties of the route effect                                     *)
(***************************************************************************)
\* a routing query made after q
NewerQuery(q) == \E later \in QueryIds : later > q /\ queries[later].state # "unused"

\* C4: last request wins: when a routing query that is still in flight
\* completes (with a route or with a failure) after a newer routing query
\* has been made, route, routeError and routeLoading stay as they are.
C4_StaleRouteResponseChangesNothing ==
    [][\A q \in QueryIds :
           (/\ queries[q].state = "inflight"
            /\ queries'[q].state # "inflight"
            /\ NewerQuery(q))
           => UNCHANGED <<route, routeError, routeLoading>>]_vars

\* the first query has completed after the second was made, the second is
\* still in flight and the route is still loading
C4_Witness ==
    /\ queries[1].state = "ignored"
    /\ queries[2].state = "inflight"
    /\ routeLoading
    /\ controller = 2

\* {!route && !routeLoading && userLocation && (...)} inside the block of
\* the selected shelter: the summary with the straight-line distance and the
\* estimated time is rendered
fallbackSummaryShown ==
    /\ selectedShelter(shelters, selectedShelterId) # <<>>
    /\ route = <<>>
    /\ ~routeLoading
    /\ userLocation # <<>>

\* C13: when the routing query of the current query point (one that has not
\* been aborted) fails or gives no route, the application ends with route
\* absent, routeLoading false and the message of the failure in routeError,
\* and the straight-line summary is rendered.
C13_RouteFailureFallsBack ==
    [][\A q \in QueryIds :
           (queries[q].state = "inflight" /\ ~queries[q].aborted) =>
               \A reply \in RouteReplies(queries[q].url) :
                   (routeFailure(reply) # Undefined /\ routeResponds(q, reply)) =>
                       /\ route' = <<>>
                       /\ routeLoading' = FALSE
                       /\ routeError' = routeFailure(reply)
                       /\ routeError' # Null
                       /\ fallbackSummaryShown']_vars

\* both queries have completed and the second, the current one, has given
\* no route: nothing is loading, the message is recorded and the
\* straight-line summary is rendered
C13_Witness ==
    /\ queries[1].state = "committed"
    /\ queries[2].state = "committed"
    /\ controller = 2
    /\ routeError = NoRouteMessage
    /\ fallbackSummaryShown

(***************************************************************************)
(* App: properties of the selection                                        *)
(***************************************************************************)
\* the step is a call of handleSelectShelter
ManualSelection ==
    \E i \in 1..Len(shelters) : handleSelectShelter(shelters[i].id)

\* the location is known, there are shelters, the effects have run, and the
\* selection is the nearest shelter
NearestIsSelected ==
    (phase = "mounted" /\ userLocation # <<>> /\ Len(shelters) > 0 /\ dirty = {})
        => selectedShelterId
               = findNearestShelter(shelters, userLocation[1])[1].shelter.id

\* C21: a manual selection is sticky: once handleSelectShelter has been
\* called (autoSelectionRef.current is false from then on), no step but
\* another call of handleSelectShelter changes selectedShelterId, whether it
\* is a location update, a recomputation of the nearest shelter or a run of
\* the selection effects.  Before any manual selection, once the effects
\* have run after a location update with a non-empty collection, the
\* selection is the nearest shelter.
C21_ManualSelectionSticky ==
    [][/\ (~autoSelectionRef /\ ~ManualSelection) =>
              /\ selectedShelterId' = selectedShelterId
              /\ ~autoSelectionRef'
       /\ autoSelectionRef' => NearestIsSelected']_vars

\* a shelter has been selected by hand, the location is known, the effects
\* have run, and the selection is still not the nearest shelter
C21_Witness ==
    /\ ~autoSelectionRef
    /\ geoStatus = "granted"
    /\ userLocation # <<>>
    /\ Len(shelters) > 0
    /\ dirty = {}
    /\ selectedShelterId
           # findNearestShelter(shelters, userLocation[1])[1].shelter.id

(***************************************************************************)
(* Pure-function harness: normalizeKey                                     *)
(***************************************************************************)
MaxKeyLen == 3

\* 'I', 'Ｉ', ' ', tab, '　', '(', ')', '（', '）', '・', '：', ':', '･'
KeyChars == {73, 65321, 32, 9, 12288, 40, 41, 65288, 65289, 12539, 65306, 58, 65381}

KeyInputs == SeqsUpTo(KeyChars, MaxKeyLen)

InitKey ==
    /\ fn = "normalizeKey"
    /\ arg \in KeyInputs
    /\ ret = <<>>
    /\ called = FALSE
    /\ Created(Undefined, TRUE)

ApplyNormalizeKey ==
    /\ fn = "normalizeKey"
    /\ ~called
    /\ ret' = normalizeKey(arg)
    /\ called' = TRUE
    /\ UNCHANGED <<fn, arg, appVars>>

NextKey == ApplyNormalizeKey

SpecKey == InitKey /\ [][NextKey]_vars

\* C9: normalizeKey is idempotent: normalizing an already normalized label
\* gives the same label back.
C9_NormalizeKeyIdempotent ==
    (fn = "normalizeKey" /\ called) => normalizeKey(ret) = ret

\* a label mixing a full-width letter, a full-width parenthesis, a middle dot
\* and a full-width colon has been normalized to something else
C9_Witness ==
    /\ fn = "normalizeKey" /\ called
    /\ arg = <<65288, 12539, 65306>>
    /\ ret = <<41, 58>>

IsParenthesis(c) == c \in {40, 41, 65288, 65289}

\* the parentheses of a label, in order, each as '(' when it opens and as ')'
\* when it closes
unifiedParentheses(label) ==
    LET found == SelectSeq(label, IsParenthesis)
    IN  [i \in 1..Len(found) |-> IF found[i] \in {40, 65288} THEN 40 ELSE 41]

\* C17: normalizeKey turns every opening parenthesis of a label, full-width
\* or ASCII, into '(' and every closing parenthesis into ')', so that a
\* balanced pair is still one '(' and one ')'.
C17_ParenthesesUnified ==
    (fn = "normalizeKey" /\ called) =>
        SelectSeq(ret, IsParenthesis) = unifiedParentheses(arg)

(***************************************************************************)
(* Pure-function harness: cleanValue and parseNumber                       *)
(***************************************************************************)
MaxNumLen == 3

\* '1', '0', '.', '-', '+', ' ', '人'
NumChars == {49, 48, 46, 45, 43, 32, 20154}

\* n copies of the code unit c
Repeat(c, n) == [i \in 1..n |-> c]

NumSpecials ==
    { <<12288, 49, 50, 51, 20154>>,        \* '　123人'
      <<28961, 12375>>,                      \* '無し'
      <<32, 8213, 32>>,                      \* ' ― '
      <<65297, 65298>>,                      \* '１２' (full-width digits)
      <<49, 101, 53>>,                       \* '1e5'
      <<49, 44, 50, 48, 48>>,                \* '1,200'
      NotAString,
      Repeat(57, 308),                       \* 308 nines
      Repeat(57, 309),                       \* 309 nines
      <<49>> \o Repeat(48, 309),             \* 1 followed by 309 zeros
      <<45>> \o Repeat(57, 400),             \* minus, 400 nines
      [i \in 1..309 |-> DoubleOverflowDigits[i] + 48],
      [i \in 1..309 |-> IF i = 309 THEN 49 ELSE DoubleOverflowDigits[i] + 48] }

NumInputs == SeqsUpTo(NumChars, MaxNumLen) \cup NumSpecials

InitNum ==
    /\ fn = "parseNumber"
    /\ arg \in NumInputs
    /\ ret = NumUndefined
    /\ called = FALSE
    /\ Created(Undefined, TRUE)

ApplyParseNumber ==
    /\ fn = "parseNumber"
    /\ ~called
    /\ ret' = parseNumber(cleanValue(arg))
    /\ called' = TRUE
    /\ UNCHANGED <<fn, arg, appVars>>

NextNum == ApplyParseNumber

SpecNum == InitNum /\ [][NextNum]_vars

\* the decimal digits of a string, in order, as numbers
digitsOf(s) ==
    LET d == SelectSeq(s, IsDigit) IN [i \in 1..Len(d) |-> d[i] - 48]

\* C10: parseNumber of a cleaned value is absent or a finite number, never NaN
\* or Infinity; it is absent for a null sentinel, for a value without any
\* digit, sign or point, and for a remainder that is no finite decimal number
\* (two points, a sign after the first character, an overflowing magnitude);
\* a finite result has the digits of the value, and a value of at most 308
\* digits and nothing else is the number those digits write.
C10_ParseNumberFiniteOrAbsent ==
    (fn = "parseNumber" /\ called) =>
        LET c == cleanValue(arg)
            kept == IF c = Undefined THEN <<>> ELSE SelectSeq(c, IsNumericChar)
        IN  /\ ret.kind \in {"undefined", "finite"}
            /\ (arg # NotAString /\ trim(arg) \in NIL_VALUES) => ret = NumUndefined
            /\ kept = <<>> => ret = NumUndefined
            /\ Cardinality({i \in 1..Len(kept) : kept[i] = 46}) >= 2
                   => ret = NumUndefined
            /\ (\E i \in 2..Len(kept) : kept[i] \in {43, 45}) => ret = NumUndefined
            /\ Len(stripLeadingZeros(digitsOf(kept))) >= 310 => ret = NumUndefined
            /\ ret.kind = "finite" =>
                   stripTrailingZeros(stripLeadingZeros(ret.ip \o ret.fp))
                       = stripTrailingZeros(stripLeadingZeros(digitsOf(c)))
            /\ (c # Undefined /\ Len(c) <= 308 /\ \A i \in 1..Len(c) : IsDigit(c[i]))
                   => ret = Num("finite", FALSE, stripLeadingZeros(digitsOf(c)), <<>>)

\* a value of 309 nines, which Number reads as Infinity, has been coerced to
\* absent
C10_Witness ==
    /\ fn = "parseNumber" /\ called
    /\ arg = Repeat(57, 309)
    /\ Number(arg).kind = "Infinity"
    /\ ret = NumUndefined

(***************************************************************************)
(* Pure-function harness: findNearestShelter                               *)
(***************************************************************************)
MaxShelters == 3

\* shelters at the given places, identified by their position in the list
SheltersAt(places) ==
    [i \in 1..Len(places) |->
        [id |-> <<64 + i>>,
         latitude |-> places[i].latitude,
         longitude |-> places[i].longitude]]

InitNearest ==
    /\ fn = "findNearestShelter"
    /\ \E places \in SeqsUpTo(GeoPoints, MaxShelters), point \in GeoPoints :
           arg = [shelters |-> SheltersAt(places), point |-> point]
    /\ ret = <<>>
    /\ called = FALSE
    /\ Created(Undefined, TRUE)

ApplyFindNearestShelter ==
    /\ fn = "findNearestShelter"
    /\ ~called
    /\ ret' = findNearestShelter(arg.shelters, arg.point)
    /\ called' = TRUE
    /\ UNCHANGED <<fn, arg, appVars>>

NextNearest == ApplyFindNearestShelter

SpecNearest == InitNearest /\ [][NextNearest]_vars

\* C8: findNearestShelter gives no result for an empty collection; otherwise
\* it gives a record of the collection with its distance to the point, no
\* record is nearer, and every record before it is strictly farther (the
\* first of the nearest records wins).
C8_NearestIsFirstMinimum ==
    (fn = "findNearestShelter" /\ called) =>
        LET list == arg.shelters
            d(i) == distanceInMeters(arg.point, list[i])
        IN  /\ list = <<>> => ret = <<>>
            /\ list # <<>> =>
                   /\ Len(ret) = 1
                   /\ \E i \in 1..Len(list) :
                          /\ ret[1].shelter = list[i]
                          /\ ret[1].distanceMeters = d(i)
                          /\ \A j \in 1..Len(list) : d(j) >= d(i)
                          /\ \A j \in 1..(i - 1) : d(j) > d(i)

\* two records at different places are equally near, a third is farther, and
\* the first of the two has been returned
C8_Witness ==
    /\ fn = "findNearestShelter" /\ called
    /\ Len(arg.shelters) = 3
    /\ distanceInMeters(arg.point, arg.shelters[2])
           = distanceInMeters(arg.point, arg.shelters[3])
    /\ arg.shelters[2].longitude # arg.shelters[3].longitude
    /\ distanceInMeters(arg.point, arg.shelters[1])
           > distanceInMeters(arg.point, arg.shelters[2])
    /\ ret = <<[shelter |-> arg.shelters[2],
               distanceMeters |-> distanceInMeters(arg.point, arg.shelters[2])]>>

(***************************************************************************)
(* Pure-function harness: parseCoolingShelterCsv                           *)
(***************************************************************************)
MaxRows == 3

(* The header rows of the batches: the column labels in order, and the     *)
(* weekdays (1 = Sunday .. 7 = Saturday) that have an opening-time and a   *)
(* closing-time column.                                                    *)
\* 'ID', '施設名', '緯度', '経度'
HeaderPlain ==
    [keys |-> << <<73, 68>>, <<26045, 35373, 21517>>, <<32239, 24230>>, <<32076, 24230>> >>,
     openDays |-> {}, closeDays |-> {}]

\* 'ＩＤ', '名　称', 'Latitude', 'Longitude', '月曜日開始時間', '月曜日終了時間'
HeaderMonday ==
    [keys |-> << <<65321, 65316>>, <<21517, 12288, 31216>>, <<76, 97, 116, 105, 116, 117, 100, 101>>, <<76, 111, 110, 103, 105, 116, 117, 100, 101>>,
                 <<26376, 26332, 26085, 38283, 22987, 26178, 38291>>, <<26376, 26332, 26085, 32066, 20102, 26178, 38291>> >>,
     openDays |-> {2}, closeDays |-> {2}]

\* 'Id', '避難・施設名', '緯度', '経度', '土曜開始', 'SUN_END', '受入可能人数'
HeaderWeekend ==
    [keys |-> << <<73, 100>>, <<36991, 38627, 12539, 26045, 35373, 21517>>, <<32239, 24230>>, <<32076, 24230>>,
                 <<22303, 26332, 38283, 22987>>, <<83, 85, 78, 95, 69, 78, 68>>, <<21463, 20837, 21487, 33021, 20154, 25968>> >>,
     openDays |-> {7}, closeDays |-> {1}]

\* 'ID', '施設名', '緯度', '経度', '収容可能人数'
HeaderCapacity ==
    [keys |-> << <<73, 68>>, <<26045, 35373, 21517>>, <<32239, 24230>>, <<32076, 24230>>, <<21454, 23481, 21487, 33021, 20154, 25968>> >>,
     openDays |-> {}, closeDays |-> {}]

Headers == {HeaderPlain, HeaderMonday, HeaderWeekend, HeaderCapacity}

(* The rows of the batches: the cells of a row in column order, whether    *)
(* the row has an identifier, a name and both coordinates (usable), and    *)
(* the identifier and name its record must carry.                          *)
RowKind(cells, usable, id, name) ==
    [cells |-> cells, usable |-> usable, id |-> id, name |-> name]

\* 'A', 'N', '35', '139', '9:30', '17:00'
RowA == RowKind(<< <<65>>, <<78>>, <<51, 53>>, <<49, 51, 57>>, <<57, 58, 51, 48>>, <<49, 55, 58, 48, 48>> >>,
                TRUE, <<65>>, <<78>>)

\* ' B ', 'M', '北緯36.5度', '140.25', '10時', '無し' (blanks and unit glyphs)
RowB == RowKind(<< <<32, 66, 32>>, <<77>>, <<21271, 32239, 51, 54, 46, 53, 24230>>, <<49, 52, 48, 46, 50, 53>>, <<49, 48, 26178>>, <<28961, 12375>> >>,
                TRUE, <<66>>, <<77>>)

\* 'A', 'M', '36', '141' (the identifier of RowA with another name and place)
RowA2 == RowKind(<< <<65>>, <<77>>, <<51, 54>>, <<49, 52, 49>> >>, TRUE, <<65>>, <<77>>)

\* 'Z', 'N', '0', '0' (coordinates that are zero)
RowZero == RowKind(<< <<90>>, <<78>>, <<48>>, <<48>> >>, TRUE, <<90>>, <<78>>)

\* 'C', 'N', '', '139', '9:30', '17:00' (no latitude)
RowNoLatitude ==
    RowKind(<< <<67>>, <<78>>, <<>>, <<49, 51, 57>>, <<57, 58, 51, 48>>, <<49, 55, 58, 48, 48>> >>,
            FALSE, <<67>>, <<78>>)

\* 'E', 'N', '35', '無し' (a null sentinel as longitude)
RowNilLongitude == RowKind(<< <<69>>, <<78>>, <<51, 53>>, <<28961, 12375>> >>, FALSE, <<69>>, <<78>>)

\* 'G', 'N', 309 nines, '139' (a latitude that overflows to Infinity)
RowInfiniteLatitude ==
    RowKind(<< <<71>>, <<78>>, Repeat(57, 309), <<49, 51, 57>> >>, FALSE, <<71>>, <<78>>)

\* 'H', 'N', '35', '1.2.3' (a longitude that is no number)
RowNaNLongitude == RowKind(<< <<72>>, <<78>>, <<51, 53>>, <<49, 46, 50, 46, 51>> >>, FALSE, <<72>>, <<78>>)

\* '  ', 'N', '35', '139' (a blank identifier)
RowBlankId == RowKind(<< <<32, 32>>, <<78>>, <<51, 53>>, <<49, 51, 57>> >>, FALSE, <<>>, <<78>>)

\* 'K', '-', '35', '139' (a null sentinel as name)
RowNilName == RowKind(<< <<75>>, <<45>>, <<51, 53>>, <<49, 51, 57>> >>, FALSE, <<75>>, <<>>)

\* 'P', 'N', '35', '139', '約100人' (a capacity with text around it)
RowCapacity100 ==
    RowKind(<< <<80>>, <<78>>, <<51, 53>>, <<49, 51, 57>>, <<32004, 49, 48, 48, 20154>> >>, TRUE, <<80>>, <<78>>)

\* 'Q', 'N', '35', '139', '0' (a capacity of zero)
RowCapacityZero == RowKind(<< <<81>>, <<78>>, <<51, 53>>, <<49, 51, 57>>, <<48>> >>, TRUE, <<81>>, <<78>>)

\* 'R', 'N', '35', '139', '' (an empty capacity)
RowCapacityEmpty == RowKind(<< <<82>>, <<78>>, <<51, 53>>, <<49, 51, 57>>, <<>> >>, TRUE, <<82>>, <<78>>)

\* 'T', 'N', '35', '139', '-5' (a capacity with a minus sign)
RowCapacityMinus == RowKind(<< <<84>>, <<78>>, <<51, 53>>, <<49, 51, 57>>, <<45, 53>> >>, TRUE, <<84>>, <<78>>)

\* 'V', 'N', '35', '139' (no cell under the capacity column)
RowCapacityMissing == RowKind(<< <<86>>, <<78>>, <<51, 53>>, <<49, 51, 57>> >>, TRUE, <<86>>, <<78>>)

\* the rows that fill the capacity column, and one that has no cell for it
CapacityRowKinds ==
    {RowCapacity100, RowCapacityZero, RowCapacityEmpty, RowCapacityMinus,
     RowCapacityMissing}

RowKinds ==
    {RowA, RowB, RowZero, RowNoLatitude, RowNilLongitude,
     RowInfiniteLatitude, RowNaNLongitude, RowBlankId, RowNilName}

\* the rows that fill the weekday columns, and one that carries the
\* identifier of another and leaves them out
TimedRowKinds == {RowA, RowA2, RowB, RowNoLatitude}

\* the rows the batches under a header are made of
KindsFor(header) ==
    IF header = HeaderPlain THEN RowKinds
    ELSE IF header = HeaderCapacity THEN CapacityRowKinds
    ELSE TimedRowKinds

\* the raw row Papa gives for the cells under a header: a cell for each
\* column there is a cell for, and the surplus cells as one array under
\* '__parsed_extra'
rawRowOf(keys, cells) ==
    LET n == IF Len(cells) < Len(keys) THEN Len(cells) ELSE Len(keys)
        named == [i \in 1..n |-> <<keys[i], cells[i]>>]
    IN  IF Len(cells) > Len(keys)
        THEN Append(named, << <<95, 95, 112, 97, 114, 115, 101, 100, 95, 101, 120, 116, 114, 97>>, NotAString >>)
        ELSE named

dataOf(header, kinds) ==
    [i \in 1..Len(kinds) |-> rawRowOf(header.keys, kinds[i].cells)]

InitParse ==
    /\ fn = "parseCoolingShelterCsv"
    /\ \E header \in Headers :
       \E kinds \in SeqsUpTo(KindsFor(header), MaxRows) :
           arg = [header |-> header, kinds |-> kinds,
                  data |-> dataOf(header, kinds)]
    /\ ret = <<>>
    /\ called = FALSE
    /\ Created(Undefined, TRUE)

ApplyParseCoolingShelterCsv ==
    /\ fn = "parseCoolingShelterCsv"
    /\ ~called
    /\ ret' = parseCoolingShelterCsv(arg.data)
    /\ called' = TRUE
    /\ UNCHANGED <<fn, arg, appVars>>

NextParse == ApplyParseCoolingShelterCsv

SpecParse == InitParse /\ [][NextParse]_vars

IsUsable(kind) == kind.usable

\* the rows of a batch of the given usability
rowsWhere(kinds, usable) == {i \in 1..Len(kinds) : kinds[i].usable = usable}

RECURSIVE concatParsed(_)
concatParsed(data) ==
    IF data = <<>> THEN <<>>
    ELSE parseCoolingShelterCsv(<<Head(data)>>) \o concatParsed(Tail(data))

\* C5: the records are exactly those of the rows that have an identifier, a
\* name, a latitude and a longitude, in row order; a batch of N rows of which
\* one lacks a coordinate and the others are usable gives N-1 records; and a
\* dropped row changes nothing for the others (the batch gives the records
\* its rows give one by one).
C5_ExactlyUsableRowsInOrder ==
    (fn = "parseCoolingShelterCsv" /\ called) =>
        LET kept == SelectSeq(arg.kinds, IsUsable)
        IN  /\ Len(ret) = Len(kept)
            /\ \A k \in 1..Len(kept) :
                   ret[k].id = kept[k].id /\ ret[k].name = kept[k].name
            /\ Cardinality(rowsWhere(arg.kinds, FALSE)) = 1
                   => Len(ret) = Len(arg.kinds) - 1
            /\ ret = concatParsed(arg.data)

\* a row without latitude stands between two usable rows, and the two
\* records of those rows are the result
C5_Witness ==
    /\ fn = "parseCoolingShelterCsv" /\ called
    /\ arg.kinds = <<RowB, RowNoLatitude, RowA>>
    /\ Len(ret) = 2
    /\ ret[1].id = RowB.id /\ ret[2].id = RowA.id

\* C6: every record has a non-empty identifier, a non-empty name and a
\* latitude and longitude that are finite numbers.
C6_RecordsHaveMandatoryFields ==
    (fn = "parseCoolingShelterCsv" /\ called) =>
        \A k \in 1..Len(ret) :
            /\ ~falsy(ret[k].id)
            /\ ~falsy(ret[k].name)
            /\ ret[k].latitude.kind = "finite"
            /\ ret[k].longitude.kind = "finite"

\* a batch holding a row whose latitude overflows to Infinity and a row with
\* coordinates 0 has been parsed: the first is left out, the second is kept
C6_Witness ==
    /\ fn = "parseCoolingShelterCsv" /\ called
    /\ arg.kinds = <<RowInfiniteLatitude, RowZero>>
    /\ Len(ret) = 1
    /\ ret[1].latitude = Num("finite", FALSE, <<>>, <<>>)

\* '日', '月', '火', '水', '木', '金', '土'
WeekdayLabels ==
    << <<26085>>, <<26376>>, <<28779>>, <<27700>>, <<26408>>, <<37329>>, <<22303>> >>

\* C7: every record has seven Daily Windows labelled 日 月 火 水 木 金 土 in
\* this order, whatever weekday columns the batch has; the opening time of a
\* weekday without opening-time column is absent, and so is the closing time
\* of a weekday without closing-time column.
C7_SevenDailyWindowsInOrder ==
    (fn = "parseCoolingShelterCsv" /\ called) =>
        \A k \in 1..Len(ret) :
            /\ Len(ret[k].openings) = 7
            /\ \A d \in 1..7 :
                   /\ ret[k].openings[d].dayLabel = WeekdayLabels[d]
                   /\ d \notin arg.header.openDays
                          => ret[k].openings[d].open = Undefined
                   /\ d \notin arg.header.closeDays
                          => ret[k].openings[d].close = Undefined

\* a record of a batch that has columns for Monday only: Monday's window is
\* 09:30 to 17:00 and the six other windows are absent
C7_Witness ==
    /\ fn = "parseCoolingShelterCsv" /\ called
    /\ arg.header = HeaderMonday
    /\ Len(ret) >= 1
    /\ ret[1].openings[2] =
           [dayLabel |-> <<26376>>, open |-> <<48, 57, 58, 51, 48>>, close |-> <<49, 55, 58, 48, 48>>]
    /\ \A d \in (1..7) \ {2} :
           ret[1].openings[d].open = Undefined
           /\ ret[1].openings[d].close = Undefined

\* the capacity text of a row of a batch, Undefined where it has no cell
capacityText(kind) == IF Len(kind.cells) >= 5 THEN kind.cells[5] ELSE Undefined

IsNegative(x) == x.kind = "finite" /\ x.neg /\ (x.ip # <<>> \/ x.fp # <<>>)

\* C11: the capacity of a record is absent or a number that is not negative,
\* for every text of the capacity column; where the row has no capacity
\* text (no cell or an empty cell) it is absent and not 0.
C11_CapacityAbsentOrNonNegative ==
    (fn = "parseCoolingShelterCsv" /\ called /\ arg.header = HeaderCapacity) =>
        \A k \in 1..Len(ret) :
            /\ ret[k].capacity = NumNull
                   \/ (ret[k].capacity.kind = "finite" /\ ~IsNegative(ret[k].capacity))
            /\ capacityText(arg.kinds[k]) \in {Undefined, <<>>}
                   => ret[k].capacity = NumNull

(***************************************************************************)
(* Pure-function harness: normalizeTime                                    *)
(***************************************************************************)
MaxTimeLen == 4

\* '9', '3', '0', ':', '：', '時'
TimeChars == {57, 51, 48, 58, 65306, 26178}

TimeInputs == {Undefined} \cup SeqsUpTo(TimeChars, MaxTimeLen)

InitTime ==
    /\ fn = "normalizeTime"
    /\ arg \in TimeInputs
    /\ ret = <<>>
    /\ called = FALSE
    /\ Created(Undefined, TRUE)

ApplyNormalizeTime ==
    /\ fn = "normalizeTime"
    /\ ~called
    /\ ret' = normalizeTime(arg)
    /\ called' = TRUE
    /\ UNCHANGED <<fn, arg, appVars>>

NextTime == ApplyNormalizeTime

SpecTime == InitTime /\ [][NextTime]_vars

\* two digits, a colon, two digits
IsHHMM(text) ==
    /\ Len(text) = 5
    /\ IsDigit(text[1]) /\ IsDigit(text[2])
    /\ text[3] = 58
    /\ IsDigit(text[4]) /\ IsDigit(text[5])

digitPlaces(text) ==
    IF text = Undefined THEN {} ELSE {i \in 1..Len(text) : IsDigit(text[i])}

\* C12: normalizeTime gives absent or a text of the form HH:MM: absent exactly
\* for an absent input and an input without a digit; an hour of one digit is
\* padded with a zero; where no minute is given the minute is 00; '9:30'
\* gives '09:30'.
C12_NormalizeTimeAbsentOrHHMM ==
    (fn = "normalizeTime" /\ called) =>
        LET places == digitPlaces(arg)
        IN  /\ ret = Undefined \/ IsHHMM(ret)
            /\ ret = Undefined <=> places = {}
            /\ places # {} =>
                 LET p == SetMin(places)
                 IN  IF p + 1 \in places
                     THEN ret[1] = arg[p] /\ ret[2] = arg[p + 1]
                     ELSE ret[1] = 48 /\ ret[2] = arg[p]
            /\ (places # {} /\ Cardinality(places) < 3) =>
                 ret[4] = 48 /\ ret[5] = 48
            /\ arg = <<57, 58, 51, 48>> => ret = <<48, 57, 58, 51, 48>>

\* '9:30' has been normalized to '09:30'
C12_Witness ==
    /\ fn = "normalizeTime" /\ called
    /\ arg = <<57, 58, 51, 48>>
    /\ ret = <<48, 57, 58, 51, 48>>

(***************************************************************************)
(* Pure-function harness: formatDuration                                   *)
(***************************************************************************)
MaxSeconds == 7300

DurationInputs ==
    {NumUndefined, NumNull, NumNaN} \cup {IntToNum(n) : n \in (-MaxSeconds)..MaxSeconds}

InitDuration ==
    /\ fn = "formatDuration"
    /\ arg \in DurationInputs
    /\ ret = <<>>
    /\ called = FALSE
    /\ Created(Undefined, TRUE)

ApplyFormatDuration ==
    /\ fn = "formatDuration"
    /\ ~called
    /\ ret' = formatDuration(arg)
    /\ called' = TRUE
    /\ UNCHANGED <<fn, arg, appVars>>

NextDuration == ApplyFormatDuration

SpecDuration == InitDuration /\ [][NextDuration]_vars

\* the whole number nearest to n / 60, the upper one of two
nearestMinute(n) ==
    CHOOSE m \in ((-MaxSeconds) \div 60 - 1)..(MaxSeconds \div 60 + 1) :
        60 * m - 30 <= n /\ n < 60 * m + 30

\* C14: formatDuration gives the placeholder '-' for an absent, undefined or
\* NaN number of seconds; for every other number of seconds it gives
\* round(seconds / 60) as whole minutes when that is below 60, and hours and
\* the rest of the minutes otherwise; formatDuration(1000) is '17分'.
C14_FormatDurationMinutesOrPlaceholder ==
    (fn = "formatDuration" /\ called) =>
        /\ arg \in {NumUndefined, NumNull, NumNaN} => ret = <<45>>
        /\ arg.kind = "finite" =>
             LET m == nearestMinute(NumToInt(arg))
             IN  IF m < 60
                 THEN ret = template(m) \o <<20998>>
                 ELSE ret = template(m \div 60) \o <<26178, 38291>> \o template(m % 60) \o <<20998>>
        /\ arg = IntToNum(1000) => ret = <<49, 55, 20998>>

(***************************************************************************)
(* Pure-function harness: distanceInMeters                                 *)
(***************************************************************************)
DistancePoints == GeoPoints \cup AntipodalPoints

InitDistance ==
    /\ fn = "distanceInMeters"
    /\ \E a \in DistancePoints, b \in DistancePoints : arg = [a |-> a, b |-> b]
    /\ ret = <<>>
    /\ called = FALSE
    /\ Created(Undefined, TRUE)

ApplyDistanceInMeters ==
    /\ fn = "distanceInMeters"
    /\ ~called
    /\ ret' = distanceInMeters(arg.a, arg.b)
    /\ called' = TRUE
    /\ UNCHANGED <<fn, arg, appVars>>

NextDistance == ApplyDistanceInMeters

SpecDistance == InitDistance /\ [][NextDistance]_vars

\* C15: for all Geographic Points a and b, distanceInMeters(a, b) is a whole
\* number that is not negative, it is 0 when b is a, and it is
\* distanceInMeters(b, a).
C15_DistanceWholeNonNegativeSymmetric ==
    (fn = "distanceInMeters" /\ called) =>
        /\ ret # NaNMeters
        /\ ret >= 0
        /\ arg.a = arg.b => ret = 0
        /\ ret = distanceInMeters(arg.b, arg.a)

(***************************************************************************)
(* Pure-function harness: findByMatchers                                   *)
(***************************************************************************)
MaxKeys == 2

\* '月曜開始', '月曜日開始時間', 'MON_START', 'mon_start', '月曜月曜日MonMON開始',
\* '月曜日休館', '開始時間', '月曜閉館', '火曜日終了', 'Tue END', '月開始'
MatchKeys ==
    {<<26376, 26332, 38283, 22987>>, <<26376, 26332, 26085, 38283, 22987, 26178, 38291>>, <<77, 79, 78, 95, 83, 84, 65, 82, 84>>, <<109, 111, 110, 95, 115, 116, 97, 114, 116>>,
     <<26376, 26332, 26376, 26332, 26085, 77, 111, 110, 77, 79, 78, 38283, 22987>>, <<26376, 26332, 26085, 20241, 39208>>, <<38283, 22987, 26178, 38291>>, <<26376, 26332, 38281, 39208>>,
     <<28779, 26332, 26085, 32066, 20102>>, <<84, 117, 101, 32, 69, 78, 68>>, <<26376, 38283, 22987>>}

InitMatch ==
    /\ fn = "findByMatchers"
    /\ \E keys \in SeqsUpTo(MatchKeys, MaxKeys), d \in 1..Len(DAY_CONFIG),
          needle \in {"start", "end"} :
           arg = [keys |-> keys, day |-> d, needle |-> needle]
    /\ ret = <<>>
    /\ called = FALSE
    /\ Created(Undefined, TRUE)

ApplyFindByMatchers ==
    /\ fn = "findByMatchers"
    /\ ~called
    /\ ret' = findByMatchers(arg.keys, DAY_CONFIG[arg.day].matchers, arg.needle)
    /\ called' = TRUE
    /\ UNCHANGED <<fn, arg, appVars>>

NextMatch == ApplyFindByMatchers

SpecMatch == InitMatch /\ [][NextMatch]_vars

\* the tokens of the weekday's label variants that the key contains
tokensIn(key, d) ==
    {m \in 1..Len(DAY_CONFIG[d].matchers) : includes(key, DAY_CONFIG[d].matchers[m])}

\* the key has an opening marker ('開始' or 'start' in any case) or a closing
\* marker ('終了', '閉' or 'end' in any case)
marked(key, needle) ==
    IF needle = "start"
    THEN includes(key, <<38283, 22987>>) \/ includes(toLowerCase(key), <<115, 116, 97, 114, 116>>)
    ELSE includes(key, <<32066, 20102>>) \/ includes(key, <<38281>>)
             \/ includes(toLowerCase(key), <<101, 110, 100>>)

\* C16: findByMatchers selects a key only if it contains all tokens of the
\* weekday's label variants and a marker of the role; a key with only some
\* of the tokens is not selected.
C16_SelectsOnlyKeysWithAllTokens ==
    (fn = "findByMatchers" /\ called /\ ret # Undefined) =>
        /\ tokensIn(ret, arg.day) = 1..Len(DAY_CONFIG[arg.day].matchers)
        /\ marked(ret, arg.needle)

\* C16, amended: findByMatchers selects the first key that contains at least
\* one token of the weekday's label variants and a marker of the role, and
\* none when there is no such key.
C16_SelectsFirstKeyWithSomeToken ==
    (fn = "findByMatchers" /\ called) =>
        LET fits == {i \in 1..Len(arg.keys) :
                        /\ tokensIn(arg.keys[i], arg.day) # {}
                        /\ marked(arg.keys[i], arg.needle)}
        IN  IF fits = {} THEN ret = Undefined
            ELSE ret = arg.keys[SetMin(fits)]

\* '月曜開始', which has one of Monday's four tokens, has been selected as
\* Monday's opening column, past a key without a marker
C16_Witness ==
    /\ fn = "findByMatchers" /\ called
    /\ arg = [keys |-> << <<26376, 26332, 26085, 20241, 39208>>, <<26376, 26332, 38283, 22987>> >>, day |-> 2, needle |-> "start"]
    /\ ret = <<26376, 26332, 38283, 22987>>

(***************************************************************************)
(* Pure-function harness: pickFirst                                        *)
(***************************************************************************)
MaxCells == 2
MaxCandidates == 2

\* 'ID', 'ＩＤ', '施設名', '名　称'
PickLabels == {<<73, 68>>, <<65321, 65316>>, <<26045, 35373, 21517>>, <<21517, 12288, 31216>>}

\* '', 'A', ' B ', '―'
PickValues == {<<>>, <<65>>, <<32, 66, 32>>, <<8213>>}

\* the raw rows: no label twice, as the keys of an object
PickRawRows ==
    {rawRow \in SeqsUpTo(PickLabels \X PickValues, MaxCells) :
        \A i, j \in 1..Len(rawRow) : rawRow[i][1] = rawRow[j][1] => i = j}

InitPick ==
    /\ fn = "pickFirst"
    /\ \E rawRow \in PickRawRows, candidates \in SeqsUpTo(PickLabels, MaxCandidates) :
           arg = [row |-> normalizeRow(rawRow), candidates |-> candidates]
    /\ ret = <<>>
    /\ called = FALSE
    /\ Created(Undefined, TRUE)

ApplyPickFirst ==
    /\ fn = "pickFirst"
    /\ ~called
    /\ ret' = pickFirst(arg.row, arg.candidates)
    /\ called' = TRUE
    /\ UNCHANGED <<fn, arg, appVars>>

NextPick == ApplyPickFirst

SpecPick == InitPick /\ [][NextPick]_vars

\* the row has this value, which is not absent, under the normalized label
hasValue(row, label, value) ==
    /\ value # Undefined
    /\ \E e \in 1..Len(row) : row[e] = <<normalizeKey(label), value>>

\* C18: pickFirst gives the value of the first candidate, in list order,
\* whose normalized form is a key of the row with a value that is not
\* absent, and absent when there is no such candidate.
C18_PickFirstPresentInListOrder ==
    (fn = "pickFirst" /\ called) =>
        LET present == {i \in 1..Len(arg.candidates) :
                           \E e \in 1..Len(arg.row) :
                               hasValue(arg.row, arg.candidates[i], arg.row[e][2])}
        IN  IF present = {} THEN ret = Undefined
            ELSE hasValue(arg.row, arg.candidates[SetMin(present)], ret)

\* the row has 'A' under '施設名' and 'B' under 'ID'; of the candidates 'ＩＤ'
\* and '施設名' the first has given 'B'
C18_Witness ==
    /\ fn = "pickFirst" /\ called
    /\ arg = [row |-> << << <<26045, 35373, 21517>>, <<65>> >>, << <<73, 68>>, <<66>> >> >>,
              candidates |-> << <<65321, 65316>>, <<26045, 35373, 21517>> >>]
    /\ ret = <<66>>

\* the last of the usable rows that carry the identifier
lastRowOf(kept, id) == kept[SetMax({k \in 1..Len(kept) : kept[k].id = id})]

\* C19: when rows of a batch carry the same identifier the last write wins:
\* what the collection holds under the identifier, and what the lookup of
\* the selected record by that identifier gives, is the data of the later row.
C19_LastWriteWins ==
    (fn = "parseCoolingShelterCsv" /\ called) =>
        LET kept == SelectSeq(arg.kinds, IsUsable)
        IN  \A k \in 1..Len(kept) :
                /\ \A j \in 1..Len(ret) :
                       ret[j].id = kept[k].id
                           => ret[j].name = lastRowOf(kept, kept[k].id).name
                /\ selectedShelter(ret, kept[k].id) # <<>>
                /\ selectedShelter(ret, kept[k].id)[1].name
                       = lastRowOf(kept, kept[k].id).name

====
